---- MODULE Spec2Model ----
(***************************************************************************)
(* Session orchestration and chunk gating of the subtitle extension:       *)
(* SubtitleService (background service), ApiService (request coordinator   *)
(* and backend client), AudioProcessor and AudioChunkBuffer.               *)
(*                                                                         *)
(* JavaScript runs one task to completion: an action of this module is one *)
(* event-loop task together with every continuation that becomes runnable  *)
(* without a new external event.  A suspension point (network I/O, the     *)
(* storage API, tab capture, message passing, audio decoding) ends an      *)
(* action; the value of pc says where a call is suspended.                 *)
(***************************************************************************)
EXTENDS Integers, Sequences, FiniteSets, TLC

\* ------------------------------------------------------------- bounds
NumTabs == 2
MaxCalls == 2
MaxRetryArg == 2
MaxCapacity == 3
MaxAdds == 4
MaxStarts == 2
MaxTasks == 2
MaxRequests == 3
MaxTicks == 2

\* ------------------------------------------------- program constants
PROCESSING_INTERVAL == 500
DefaultRequestTimeout == 15000
DefaultMaxRetries == 3
SessionBufferChunks == 5
KeyBodyPrefix == 100
MinChunkSize == 1000
\* SILENCE_THRESHOLD 0.01, amplitudes being counted in thousandths
SILENCE_THRESHOLD == 10

Tabs == 1..NumTabs

\* Durations by which the clock may advance in one step (ms).
Steps == {200, PROCESSING_INTERVAL}

Min(a, b) == IF a < b THEN a ELSE b
Abs(x) == IF x < 0 THEN 0 - x ELSE x

\* ------------------------------------------------------------- strings
\* A text is a sequence of one-character strings.
IsSpace(c) == c = " "

RECURSIVE TrimStart(_)
TrimStart(s) ==
  IF s # <<>> /\ IsSpace(Head(s)) THEN TrimStart(Tail(s)) ELSE s

RECURSIVE TrimEnd(_)
TrimEnd(s) ==
  IF s # <<>> /\ IsSpace(s[Len(s)]) THEN TrimEnd(SubSeq(s, 1, Len(s) - 1)) ELSE s

\* String.prototype.trim
Trim(s) == TrimEnd(TrimStart(s))

\* String.prototype.slice(0, n)
Slice0(s, n) == SubSeq(s, 1, Min(n, Len(s)))

\* ------------------------------------------------------- audio chunks
\* The blobs the recorder can hand over.  size is the blob size in bytes,
\* samples the decoded channel data in thousandths of full scale (the
\* empty sequence with decodable = FALSE when decodeAudioData rejects),
\* text and lang what is spoken in the blob.
Blob ==
  [ hello   |-> [size |-> 4096, decodable |-> TRUE, samples |-> <<500, -500>>,
                 text |-> <<"h", "e", "l", "l", "o">>, lang |-> "en"],
    bonjour |-> [size |-> 4096, decodable |-> TRUE, samples |-> <<400, -600>>,
                 text |-> <<"b", "o", "n", "j", "o", "u", "r">>, lang |-> "fr"],
    silence |-> [size |-> 4096, decodable |-> TRUE, samples |-> <<5, -5>>,
                 text |-> <<" ">>, lang |-> ""],
    tiny    |-> [size |-> 900, decodable |-> TRUE, samples |-> <<500, -500>>,
                 text |-> <<"h", "i">>, lang |-> "en"],
    faint   |-> [size |-> 4096, decodable |-> TRUE, samples |-> <<10, -10>>,
                 text |-> <<"p", "s", "t">>, lang |-> "en"],
    garbled |-> [size |-> 4096, decodable |-> FALSE, samples |-> <<>>,
                 text |-> <<"h", "m">>, lang |-> ""],
    noise   |-> [size |-> 4096, decodable |-> TRUE, samples |-> <<300, -300>>,
                 text |-> <<" ">>, lang |-> "en"] ]

ChunkIds == {"hello", "bonjour", "silence", "tiny", "faint", "garbled", "noise"}

\* The blobs the recorder of a tab can emit: what is played in tab 1 and
\* what is played in the other tabs.
TabAudio(tab) == IF tab = 1 THEN {"hello", "silence", "tiny"} ELSE {"bonjour"}

\* ------------------------------------------------------ configuration
BaseUrl == "http://localhost:8001"

\* getApiConfig: the base URL with the health URL derived from it
getApiConfig ==
  [ whisperServiceUrl |-> BaseUrl,
    healthCheckUrl    |-> <<BaseUrl, "/health">>,
    maxRetries        |-> DefaultMaxRetries,
    requestTimeout    |-> DefaultRequestTimeout ]

NoConfig ==
  [ whisperServiceUrl |-> "",
    healthCheckUrl    |-> <<"", "">>,
    maxRetries        |-> 0,
    requestTimeout    |-> 0 ]

\* API_ENDPOINTS
TRANSCRIBE == "/transcribe"
TRANSLATE_AUDIO_TO_LANGUAGE == "/translate_audio_to_language"
TRANSLATE_TEXT == "/translate_text"
DETECT_LANGUAGE == "/detect_language"

VARIABLES
  now,             \* Date.now(), in ms
  ticks,           \* how many times the clock advanced
  tabOpen,         \* tabOpen[t]: the tab still exists
  settings,        \* chrome.storage.sync: sourceLanguage, targetLanguage
  config,          \* ApiService.config (NoConfig while null)
  requestQueue,    \* ApiService.requestQueue: request key -> request
  requests,        \* the executeRequest calls in progress (slots, "free" if unused)
  activeSessions,  \* SubtitleService.activeSessions: tab -> session (0: none)
  sessions,        \* every ActiveSession object created so far
  starts,          \* every startAudioCapture call made so far
  tasks,           \* the handleAudioChunk calls in progress (slots, "free" if unused)
  chan,            \* chan[t]: messages sent to tab t and not yet received
  sink,            \* sink[t]: messages the content script of t received
  calls,           \* the calls of ApiService methods made by other callers
  retry,           \* the call of ApiService.retryRequest, if one was made
  buffer,          \* an AudioChunkBuffer with the chunks handed to it
  video            \* video[t]: is the video of tab t paused, and since when

vars == <<now, ticks, tabOpen, settings, config, requestQueue, requests,
          activeSessions, sessions, starts, tasks, chan, sink, calls, retry,
          buffer, video>>

\* --------------------------------------------------------- ApiService
\* A request body: none (GET), a FormData with its entries in order, or the
\* JSON text of an object with its properties in order.
NoBody == [kind |-> "none", entries |-> <<>>]
FormData(entries) == [kind |-> "form", entries |-> entries]
JSONStringify(entries) == [kind |-> "json", entries |-> entries]

\* FormData inherits Object.prototype.toString
ObjectFormData ==
  <<"[", "o", "b", "j", "e", "c", "t", " ", "F", "o", "r", "m", "D", "a", "t",
    "a", "]">>

\* body.toString(): a string is itself (the JSON texts of this module are
\* shorter than the prefix that enters the key)
BodyToString(body) ==
  IF body.kind = "form" THEN ObjectFormData
  ELSE IF body.kind = "json" THEN body.entries
  ELSE <<>>

\* makeRequest: `${method}:${url}:${body ? body.toString().slice(0, 100) : ''}`
requestKey(method, url, body) ==
  <<method, url,
    IF body.kind # "none" THEN Slice0(BodyToString(body), KeyBodyPrefix) ELSE <<>>>>

\* transcribeAudio: the form it posts
TranscribeForm(chunk, sourceLanguage) ==
  FormData(<< <<"audio_file", chunk>>,
              <<"source_language", IF sourceLanguage = "auto" THEN "" ELSE sourceLanguage>>,
              <<"return_segments", "false">>,
              <<"return_language", "true">> >>)

\* translateAudioToLanguage: the form it posts
TranslateForm(chunk, targetLanguage, sourceLanguage) ==
  FormData(<< <<"audio_file", chunk>>,
              <<"source_language", IF sourceLanguage = "auto" THEN "" ELSE sourceLanguage>>,
              <<"target_language", targetLanguage>>,
              <<"return_segments", "false">>,
              <<"return_language", "true">> >>)

NoValue == [text |-> <<>>, detected_language |-> ""]
NoOutcome == [ok |-> FALSE, status |-> -1, value |-> NoValue]

\* What the whisper service answers to a request it completes: the health
\* report for GET /health, otherwise the speech of the posted audio_file.
BackendAnswer(req) ==
  IF req.body.kind # "form"
    THEN [text |-> <<"o", "k">>, detected_language |-> ""]
    ELSE [text |-> Blob[req.body.entries[1][2]].text,
          detected_language |-> Blob[req.body.entries[1][2]].lang]

\* A slot of requests that holds no call.
FreeRequest ==
  [ method |-> "", url |-> <<"", "">>, body |-> NoBody, key |-> <<"", <<"", "">>, <<>>>>,
    phase |-> "free", timer |-> "cleared", status |-> 0,
    issuedAt |-> 0, deadline |-> 0 ]

InUse(r) == requests[r].phase # "free"

FreeRequestSlots == {r \in DOMAIN requests : ~InUse(r)}

\* the slot the next executeRequest call takes
NextRequestSlot == CHOOSE r \in FreeRequestSlots : \A q \in FreeRequestSlots : r <= q

\* a makeRequest that never finds the key in the table
NeverPending(key) == FALSE

\* makeRequest: is the same request already in progress
HasPending(key) == key \in DOMAIN requestQueue

\* makeRequest: the request whose promise the caller awaits
RequestFor(method, url, body) ==
  IF HasPending(requestKey(method, url, body))
    THEN requestQueue[requestKey(method, url, body)]
    ELSE NextRequestSlot

\* executeRequest up to its fetch: the timer is set, the fetch is issued
NewRequest(method, url, body, cfg) ==
  [ method |-> method, url |-> url, body |-> body,
    key |-> requestKey(method, url, body),
    phase |-> "fetch", timer |-> "armed", status |-> 0,
    issuedAt |-> now, deadline |-> now + cfg.requestTimeout ]

\* makeRequest: requests after the call (a new one only when none is pending)
RequestsAfterMake(method, url, body, cfg) ==
  IF HasPending(requestKey(method, url, body))
    THEN requests
    ELSE [requests EXCEPT ![NextRequestSlot] = NewRequest(method, url, body, cfg)]

\* makeRequest: requestQueue.set(requestKey, requestPromise)
QueueAfterMake(method, url, body) ==
  IF HasPending(requestKey(method, url, body))
    THEN requestQueue
    ELSE (requestKey(method, url, body) :> NextRequestSlot) @@ requestQueue

\* The model holds at most MaxRequests network calls in progress.
CanMake(method, url, body) ==
  HasPending(requestKey(method, url, body)) \/ FreeRequestSlots # {}

\* a makeRequest that deletes the key after success only
QueueKeptOnFailure(r, ok) ==
  IF ok
    THEN [k \in DOMAIN requestQueue \ {requests[r].key} |-> requestQueue[k]]
    ELSE requestQueue

\* makeRequest: requestQueue.delete(requestKey), after success and after failure
QueueAfterSettle(r, ok) ==
  [k \in DOMAIN requestQueue \ {requests[r].key} |-> requestQueue[k]]

\* a processAudioChunkRealTime that reports every outcome to the tab
DisplaysAnyOutcome(out) == TRUE

\* processAudioChunkRealTime: result.text && result.text.trim()
Displays(out) == out.ok /\ Trim(out.value.text) # <<>>

\* A slot of tasks that holds no call.
FreeTask ==
  [ sid |-> 0, tab |-> 0, chunk |-> "", pc |-> "free", req |-> 0,
    url |-> <<"", "">>, body |-> NoBody, sourceLanguage |-> "", result |-> NoOutcome,
    inMap |-> FALSE ]

\* a call of handleAudioChunk suspended in makeRequest on request r
AwaitsRequest(t, r) == t.pc = "dispatch" /\ t.req = r

\* a subtitle that is always labelled with the source language
SubtitleInSourceLanguage(i, out) ==
  [ type |-> "DISPLAY_SUBTITLE", text |-> out.value.text,
    language |-> tasks[i].sourceLanguage,
    sender |-> <<"task", i>> ]

\* the DISPLAY_SUBTITLE message of task i for the result out
SubtitleMessage(i, out) ==
  [ type |-> "DISPLAY_SUBTITLE", text |-> out.value.text,
    language |-> IF out.value.detected_language # ""
                   THEN out.value.detected_language
                   ELSE tasks[i].sourceLanguage,
    sender |-> <<"task", i>> ]

\* new APIError(message, status, details)
APIError(message, status, details) ==
  [message |-> message, status |-> status, details |-> details]

\* no error
NoError == APIError("", -1, APIError("", -1, ""))

\* executeRequest: the error it throws for the failed outcome out
RequestError(out) ==
  IF out.status = 408
    THEN APIError("Request timeout", 408, "Request was aborted due to timeout")
  ELSE IF out.status = 0
    THEN APIError("Network error", 0, "error.message")
  ELSE APIError("API request failed", out.status, "errorText")

\* The five operations of the backend client.
ClientOps ==
  {"healthCheck", "transcribeAudio", "translateAudioToLanguage", "translateText",
   "detectLanguage"}

\* the message of the APIError in the catch of each operation
OpFailure(op) ==
  CASE op = "healthCheck" -> "Health check failed"
    [] op = "transcribeAudio" -> "Transcription failed"
    [] op = "translateAudioToLanguage" -> "Audio translation failed"
    [] op = "translateText" -> "Text translation failed"
    [] op = "detectLanguage" -> "Language detection failed"

\* the catch of an operation: throw new APIError('... failed', 0, error)
OperationError(op, error) == APIError(OpFailure(op), 0, error)

\* the arguments an operation passes to makeRequest
OpMethod(op) == IF op = "healthCheck" THEN "GET" ELSE "POST"

OpUrl(op, cfg) ==
  CASE op = "healthCheck" -> cfg.healthCheckUrl
    [] op = "transcribeAudio" -> <<cfg.whisperServiceUrl, TRANSCRIBE>>
    [] op = "translateAudioToLanguage" -> <<cfg.whisperServiceUrl, TRANSLATE_AUDIO_TO_LANGUAGE>>
    [] op = "translateText" -> <<cfg.whisperServiceUrl, TRANSLATE_TEXT>>
    [] op = "detectLanguage" -> <<cfg.whisperServiceUrl, DETECT_LANGUAGE>>

\* the body of each operation, for the blob 'hello', the text 'hi', source
\* language 'auto' and target language 'fr'
OpBody(op) ==
  CASE op = "healthCheck" -> NoBody
    [] op = "transcribeAudio" -> TranscribeForm("hello", "auto")
    [] op = "translateAudioToLanguage" -> TranslateForm("hello", "fr", "auto")
    [] op = "translateText" ->
         JSONStringify(<< <<"text", "hi">>, <<"source_language", "auto">>,
                          <<"target_language", "fr">> >>)
    [] op = "detectLanguage" -> FormData(<< <<"audio_file", "hello">> >>)

\* a call of an operation that awaits getConfig (arg: the newConfig of a
\* call of updateConfig)
NewCall(op) ==
  [ op |-> op, pc |-> "config", req |-> 0, value |-> NoValue, error |-> NoError,
    arg |-> [present |-> {}, defined |-> {}, values |-> NoConfig] ]

\* an operation after `await this.makeRequest(...)` settled with out
AfterMakeRequest(call, out) ==
  IF out.ok
    THEN [call EXCEPT !.pc = "returned", !.req = 0, !.value = out.value]
    ELSE [call EXCEPT !.pc = "thrown", !.req = 0,
                      !.error = OperationError(call.op, RequestError(out))]

\* a startAudioCapture that goes on to the capture whatever the probe did
ProbeIgnored(st, out) == [st EXCEPT !.pc = "capture", !.req = 0]

\* startAudioCapture after `await apiService.healthCheck()` settled with out:
\* the catch returns the "Cannot connect to whisper-service" response
AfterHealthCheck(st, out) ==
  IF out.ok
    THEN [st EXCEPT !.pc = "capture", !.req = 0]
    ELSE [st EXCEPT !.pc = "done", !.req = 0, !.result = "BackendUnavailable"]

\* a handler that returns without touching the flag
FlagKept(session) == session

\* handleAudioChunk, finally: session.isProcessing = false
HandlerEnds(session) == [session EXCEPT !.isProcessing = FALSE]

\* The promise of request r settles with out.  makeRequest deletes the key
\* and every caller awaiting the promise continues to its next suspension:
\*  - startAudioCapture after healthCheck: a failure returns the
\*    "Cannot connect" response, a success calls chrome.tabCapture.capture;
\*  - processAudioChunkRealTime: a result with text is sent to the tab, any
\*    other outcome ends handleAudioChunk, whose finally clears isProcessing;
\*  - an operation called by another caller returns or throws.
Settle(r, out) ==
  /\ requests' = [requests EXCEPT ![r] = FreeRequest]
  /\ requestQueue' = QueueAfterSettle(r, out.ok)
  /\ calls' = [c \in DOMAIN calls |->
       IF calls[c].pc = "await" /\ calls[c].req = r
         THEN AfterMakeRequest(calls[c], out)
         ELSE calls[c]]
  /\ starts' = [i \in DOMAIN starts |->
       IF starts[i].pc = "health" /\ starts[i].req = r
         THEN AfterHealthCheck(starts[i], out)
         ELSE starts[i]]
  /\ tasks' = [i \in DOMAIN tasks |->
       IF AwaitsRequest(tasks[i], r)
         THEN IF Displays(out)
                THEN [tasks[i] EXCEPT !.pc = "send", !.result = out]
                ELSE FreeTask
         ELSE tasks[i]]
  /\ sessions' = [s \in DOMAIN sessions |->
       IF \E i \in DOMAIN tasks :
            AwaitsRequest(tasks[i], r) /\ tasks[i].sid = s /\ ~Displays(out)
         THEN HandlerEnds(sessions[s])
         ELSE sessions[s]]
  /\ chan' = [t \in Tabs |->
       IF Displays(out)
         THEN LET idx == SelectSeq([i \in 1..MaxTasks |-> i],
                           LAMBDA i : AwaitsRequest(tasks[i], r) /\ tasks[i].tab = t)
              IN  chan[t] \o [j \in 1..Len(idx) |-> SubtitleMessage(idx[j], out)]
         ELSE chan[t]]

\* executeRequest: what happens to the timer once fetch has resolved
TimerAfterResponse == "cleared"

\* fetch resolves with the response headers: clearTimeout, then the body is
\* read (response.text() of a non-2xx response, response.json() otherwise).
FetchResponds(r, status) ==
  /\ requests[r].phase = "fetch"
  /\ requests' = [requests EXCEPT
       ![r].phase = IF status \in 200..299 THEN "body" ELSE "errbody",
       ![r].timer = TimerAfterResponse,
       ![r].status = status]
  /\ UNCHANGED <<now, ticks, tabOpen, settings, config, requestQueue,
                 activeSessions, sessions, starts, tasks, chan, sink,
                 calls, retry, buffer, video>>

\* fetch rejects with a transport error: APIError('Network error', 0, message)
FetchRejects(r) ==
  /\ requests[r].phase = "fetch"
  /\ Settle(r, [ok |-> FALSE, status |-> 0, value |-> NoValue])
  /\ UNCHANGED <<now, ticks, tabOpen, settings, config, activeSessions, sink,
                 retry, buffer, video>>

\* the timer set by executeRequest fires: controller.abort() rejects the
\* pending fetch or body read: APIError('Request timeout', 408, ...)
TimeoutFires(r) ==
  /\ InUse(r)
  /\ requests[r].timer = "armed"
  /\ now >= requests[r].deadline
  /\ Settle(r, [ok |-> FALSE, status |-> 408, value |-> NoValue])
  /\ UNCHANGED <<now, ticks, tabOpen, settings, config, activeSessions, sink,
                 retry, buffer, video>>

\* the body has been read: the parsed answer is returned, or the APIError
\* carrying the response status is thrown
BodyRead(r) ==
  /\ requests[r].phase \in {"body", "errbody"}
  /\ Settle(r, IF requests[r].phase = "body"
                 THEN [ok |-> TRUE, status |-> requests[r].status,
                       value |-> BackendAnswer(requests[r])]
                 ELSE [ok |-> FALSE, status |-> requests[r].status, value |-> NoValue])
  /\ UNCHANGED <<now, ticks, tabOpen, settings, config, activeSessions, sink,
                 retry, buffer, video>>

\* reading the body rejects with a transport error
BodyRejects(r) ==
  /\ requests[r].phase \in {"body", "errbody"}
  /\ Settle(r, [ok |-> FALSE, status |-> 0, value |-> NoValue])
  /\ UNCHANGED <<now, ticks, tabOpen, settings, config, activeSessions, sink,
                 retry, buffer, video>>

\* An operation of the backend client is called by a caller other than the
\* session code: it awaits getConfig when no configuration is loaded, else
\* it calls makeRequest.
ClientCall(op) ==
  /\ Len(calls) < MaxCalls
  /\ IF config = NoConfig
       THEN /\ calls' = Append(calls, NewCall(op))
            /\ UNCHANGED <<requests, requestQueue>>
       ELSE /\ CanMake(OpMethod(op), OpUrl(op, config), OpBody(op))
            /\ calls' = Append(calls,
                 [NewCall(op) EXCEPT !.pc = "await",
                    !.req = RequestFor(OpMethod(op), OpUrl(op, config), OpBody(op))])
            /\ requests' = RequestsAfterMake(OpMethod(op), OpUrl(op, config), OpBody(op), config)
            /\ requestQueue' = QueueAfterMake(OpMethod(op), OpUrl(op, config), OpBody(op))
  /\ UNCHANGED <<now, ticks, tabOpen, settings, config, activeSessions, sessions,
                 starts, tasks, chan, sink, retry, buffer, video>>

\* getConfig of call c: this.config = await getApiConfig(); the operation
\* then calls makeRequest
ClientConfigLoaded(c) ==
  /\ calls[c].pc = "config"
  /\ CanMake(OpMethod(calls[c].op), OpUrl(calls[c].op, getApiConfig), OpBody(calls[c].op))
  /\ config' = getApiConfig
  /\ calls' = [calls EXCEPT
       ![c].pc = "await",
       ![c].req = RequestFor(OpMethod(calls[c].op), OpUrl(calls[c].op, getApiConfig),
                             OpBody(calls[c].op))]
  /\ requests' = RequestsAfterMake(OpMethod(calls[c].op), OpUrl(calls[c].op, getApiConfig),
                                   OpBody(calls[c].op), getApiConfig)
  /\ requestQueue' = QueueAfterMake(OpMethod(calls[c].op), OpUrl(calls[c].op, getApiConfig),
                                    OpBody(calls[c].op))
  /\ UNCHANGED <<now, ticks, tabOpen, settings, activeSessions, sessions, starts,
                 tasks, chan, sink, retry, buffer, video>>

\* ---------------------------------------------------- SubtitleService
\* startAudioCapture: this.activeSessions.has(tabId)
AlreadyCapturing(tab) == activeSessions[tab] # 0

\* A call of startAudioCapture.  stopSeen records that stopAudioCapture ran
\* for the tab after the call was made.
NewStart(tab, pc, req, result) ==
  [tab |-> tab, pc |-> pc, req |-> req, sid |-> 0, result |-> result,
   stopSeen |-> FALSE]

\* message START_CAPTURE from the content script of tab: startAudioCapture up
\* to its first suspension (in healthCheck: the first getConfig loads the
\* configuration from storage, later ones go straight to makeRequest)
StartCapture(tab) ==
  /\ tabOpen[tab]
  /\ Len(starts) < MaxStarts
  /\ IF AlreadyCapturing(tab)
       THEN /\ starts' = Append(starts, NewStart(tab, "done", 0, "AlreadyCapturing"))
            /\ UNCHANGED <<requests, requestQueue>>
       ELSE IF config = NoConfig
         THEN /\ starts' = Append(starts, NewStart(tab, "config", 0, ""))
              /\ UNCHANGED <<requests, requestQueue>>
         ELSE /\ CanMake("GET", config.healthCheckUrl, NoBody)
              /\ starts' = Append(starts,
                   NewStart(tab, "health",
                            RequestFor("GET", config.healthCheckUrl, NoBody), ""))
              /\ requests' = RequestsAfterMake("GET", config.healthCheckUrl, NoBody, config)
              /\ requestQueue' = QueueAfterMake("GET", config.healthCheckUrl, NoBody)
  /\ UNCHANGED <<now, ticks, tabOpen, settings, config, activeSessions, sessions,
                 tasks, chan, sink,
                 calls, retry, buffer, video>>

\* getConfig: this.config = await getApiConfig(); healthCheck then calls
\* makeRequest('GET', config.healthCheckUrl)
ConfigLoaded(i) ==
  /\ starts[i].pc = "config"
  /\ CanMake("GET", getApiConfig.healthCheckUrl, NoBody)
  /\ config' = getApiConfig
  /\ starts' = [starts EXCEPT
       ![i].pc = "health",
       ![i].req = RequestFor("GET", getApiConfig.healthCheckUrl, NoBody)]
  /\ requests' = RequestsAfterMake("GET", getApiConfig.healthCheckUrl, NoBody, getApiConfig)
  /\ requestQueue' = QueueAfterMake("GET", getApiConfig.healthCheckUrl, NoBody)
  /\ UNCHANGED <<now, ticks, tabOpen, settings, activeSessions, sessions, tasks,
                 chan, sink,
                 calls, retry, buffer, video>>

\* The ActiveSession built by startAudioCapture around the acquired stream.
\* Besides the fields of the code: trackStops counts the calls of track.stop(),
\* keyStopped records that stopAudioCapture ran for the tab since the stream
\* was acquired, skippedChunk is the blob on which a check of handleAudioChunk
\* returned early, if that happened since the last blob that passed them.
NewSession(tab) ==
  [ tab |-> tab, stream |-> "live", trackStops |-> 0, recorder |-> "inactive",
    finalChunk |-> FALSE, isProcessing |-> FALSE, lastProcessedTime |-> now,
    chunks |-> <<>>, keyStopped |-> FALSE, skippedChunk |-> "" ]

\* stopAudioCapture on the session found in the map: audioProcessor.cleanup()
\* stops a recording recorder (which then emits its last data), every track
\* of the stream is stopped
StoppedSession(s) ==
  [s EXCEPT !.stream = "stopped", !.trackStops = @ + 1, !.recorder = "inactive",
            !.finalChunk = (s.recorder = "recording"), !.keyStopped = TRUE]

\* stopAudioCapture(tab) applied to the session objects ss with map am
SessionsAfterStop(ss, am, tab) ==
  [s \in DOMAIN ss |->
     IF s = am[tab] THEN StoppedSession(ss[s])
     ELSE IF ss[s].tab = tab THEN [ss[s] EXCEPT !.keyStopped = TRUE]
     ELSE ss[s]]

\* the calls of startAudioCapture see that stopAudioCapture ran for tab
StartsAfterStop(st, tab) ==
  [i \in DOMAIN st |->
     IF st[i].tab = tab THEN [st[i] EXCEPT !.stopSeen = TRUE] ELSE st[i]]

\* a stopAudioCapture that leaves the entry in the map
MapKept(am, tab) == am

\* stopAudioCapture: this.activeSessions.delete(tabId)
MapAfterStop(am, tab) == [am EXCEPT ![tab] = 0]

Message(type, sender) ==
  [type |-> type, text |-> <<>>, language |-> "", sender |-> sender]

\* a stopAudioCapture that sends CAPTURE_STOPPED whether or not it found a
\* session
AlwaysNotifies(ch, am, tab) ==
  [ch EXCEPT ![tab] = Append(@, Message("CAPTURE_STOPPED", <<"stop", 0>>))]

\* stopAudioCapture: CAPTURE_STOPPED is sent when there was a session
ChanAfterStop(ch, am, tab) ==
  IF am[tab] # 0
    THEN [ch EXCEPT ![tab] = Append(@, Message("CAPTURE_STOPPED", <<"stop", 0>>))]
    ELSE ch

\* chrome.tabCapture.capture hands over a stream: the session is built and
\* registered, startRealTimeProcessing starts the recorder (recOk) or, when
\* startProcessing throws, calls stopAudioCapture; then CAPTURE_STARTED is sent
CaptureResolves(i, recOk) ==
  /\ starts[i].pc = "capture"
  /\ LET tab == starts[i].tab
         sid == Len(sessions) + 1
         made == Append(sessions, [NewSession(tab) EXCEPT
                   !.recorder = IF recOk THEN "recording" ELSE "inactive"])
         reg == [activeSessions EXCEPT ![tab] = sid]
     IN  /\ sessions' = IF recOk THEN made ELSE SessionsAfterStop(made, reg, tab)
         /\ activeSessions' = IF recOk THEN reg ELSE MapAfterStop(reg, tab)
         /\ chan' = [(IF recOk THEN chan ELSE ChanAfterStop(chan, reg, tab)) EXCEPT
              ![tab] = Append(@, Message("CAPTURE_STARTED", <<"start", i>>))]
         /\ starts' = [(IF recOk THEN starts ELSE StartsAfterStop(starts, tab)) EXCEPT
              ![i].pc = "notify", ![i].sid = sid]
  /\ UNCHANGED <<now, ticks, tabOpen, settings, config, requestQueue, requests,
                 tasks, sink,
                 calls, retry, buffer, video>>

\* chrome.tabCapture.capture fails (lastError, or no stream): the catch of
\* startAudioCapture returns the error
CaptureRejects(i) ==
  /\ starts[i].pc = "capture"
  /\ starts' = [starts EXCEPT ![i].pc = "done", ![i].result = "CaptureFailed"]
  /\ UNCHANGED <<now, ticks, tabOpen, settings, config, requestQueue, requests,
                 activeSessions, sessions, tasks, chan, sink,
                 calls, retry, buffer, video>>

\* stopAudioCapture(tab), up to its await of the CAPTURE_STOPPED message
StopAudioCapture(tab) ==
  /\ starts' = StartsAfterStop(starts, tab)
  /\ sessions' = SessionsAfterStop(sessions, activeSessions, tab)
  /\ activeSessions' = MapAfterStop(activeSessions, tab)
  /\ chan' = ChanAfterStop(chan, activeSessions, tab)

\* message STOP_CAPTURE from the content script of tab
StopCapture(tab) ==
  /\ tabOpen[tab]
  /\ StopAudioCapture(tab)
  /\ UNCHANGED <<now, ticks, tabOpen, settings, config, requestQueue, requests,
                 tasks, sink,
                 calls, retry, buffer, video>>

\* message STOP_CAPTURE when a call that releases the session throws:
\* audioProcessor.cleanup() (at = "cleanup") or track.stop() after it
\* (at = "tracks").  Neither call is inside a try: stopAudioCapture ends there,
\* before activeSessions.delete and before CAPTURE_STOPPED is sent, and the
\* catch of handleMessage returns the error.
StopCaptureThrows(tab, at) ==
  /\ tabOpen[tab]
  /\ activeSessions[tab] # 0
  /\ starts' = StartsAfterStop(starts, tab)
  /\ sessions' = [s \in DOMAIN sessions |->
       IF sessions[s].tab # tab THEN sessions[s]
       ELSE IF s = activeSessions[tab] /\ at = "tracks"
         THEN [sessions[s] EXCEPT !.recorder = "inactive",
                 !.finalChunk = (sessions[s].recorder = "recording"),
                 !.keyStopped = TRUE]
         ELSE [sessions[s] EXCEPT !.keyStopped = TRUE]]
  /\ UNCHANGED <<now, ticks, tabOpen, settings, config, requestQueue, requests,
                 activeSessions, tasks, chan, sink,
                 calls, retry, buffer, video>>

\* handleTabUpdate with changeInfo.status = 'loading'
TabUpdate(tab) ==
  /\ tabOpen[tab]
  /\ IF activeSessions[tab] # 0
       THEN StopAudioCapture(tab)
       ELSE UNCHANGED <<starts, sessions, activeSessions, chan>>
  /\ UNCHANGED <<now, ticks, tabOpen, settings, config, requestQueue, requests,
                 tasks, sink,
                 calls, retry, buffer, video>>

\* handleTabRemoved
TabRemoved(tab) ==
  /\ tabOpen[tab]
  /\ tabOpen' = [tabOpen EXCEPT ![tab] = FALSE]
  /\ IF activeSessions[tab] # 0
       THEN StopAudioCapture(tab)
       ELSE UNCHANGED <<starts, sessions, activeSessions, chan>>
  /\ UNCHANGED <<now, ticks, settings, config, requestQueue, requests,
                 tasks, sink,
                 calls, retry, buffer, video>>

\* The video of a tab: playing, or paused since the time at.
Playing == [paused |-> FALSE, at |-> 0]

\* a pause handler that stops the capture, as the handler of 'ended' does
PauseStops(tab) ==
  IF activeSessions[tab] # 0
    THEN StopAudioCapture(tab)
    ELSE UNCHANGED <<starts, sessions, activeSessions, chan>>

\* SubtitleOverlay.pauseAudioCapture: an empty function, no message is sent
\* to the service
pauseAudioCapture(tab) == UNCHANGED <<starts, sessions, activeSessions, chan>>

\* the video of the tab fires 'pause': the listener calls pauseAudioCapture
VideoPause(tab) ==
  /\ tabOpen[tab]
  /\ ~video[tab].paused
  /\ video' = [video EXCEPT ![tab] = [paused |-> TRUE, at |-> now]]
  /\ pauseAudioCapture(tab)
  /\ UNCHANGED <<now, ticks, tabOpen, settings, config, requestQueue, requests,
                 tasks, sink, calls, retry, buffer>>

\* the video fires 'play' while the subtitles are switched off (isActive is
\* false): the listener does nothing
VideoPlay(tab) ==
  /\ tabOpen[tab]
  /\ video[tab].paused
  /\ video' = [video EXCEPT ![tab] = Playing]
  /\ UNCHANGED <<now, ticks, tabOpen, settings, config, requestQueue, requests,
                 activeSessions, sessions, starts, tasks, chan, sink, calls, retry,
                 buffer>>

\* The oldest message sent to tab is received by its content script, or its
\* sendMessage rejects (no receiving end); the sender continues:
\* startAudioCapture returns success or, from its catch, the error;
\* processAudioChunkRealTime returns and handleAudioChunk clears isProcessing.
Deliver(tab, delivered) ==
  /\ chan[tab] # <<>>
  /\ delivered => tabOpen[tab]
  /\ LET m == Head(chan[tab])
         who == m.sender[1]
         i == m.sender[2]
     IN  /\ chan' = [chan EXCEPT ![tab] = Tail(@)]
         /\ sink' = IF delivered
                      THEN [sink EXCEPT ![tab] = Append(@, [m EXCEPT !.sender = <<"", 0>>])]
                      ELSE sink
         /\ starts' = IF who = "start"
                        THEN [starts EXCEPT ![i].pc = "done",
                                ![i].result = IF delivered THEN "success" ELSE "NotifyFailed"]
                        ELSE starts
         /\ tasks' = IF who = "task" THEN [tasks EXCEPT ![i] = FreeTask] ELSE tasks
         /\ sessions' = IF who = "task"
                          THEN [sessions EXCEPT ![tasks[i].sid] = HandlerEnds(@)]
                          ELSE sessions
  /\ UNCHANGED <<now, ticks, tabOpen, settings, config, requestQueue, requests,
                 activeSessions,
                 calls, retry, buffer, video>>

\* ------------------------------------------------- chunk delivery loop
RECURSIVE SumAbs(_)
SumAbs(xs) == IF xs = <<>> THEN 0 ELSE Abs(Head(xs)) + SumAbs(Tail(xs))

\* a detectSpeech that compares with >= instead of >
SpeechAtThreshold(hasContext, chunk) ==
  IF ~hasContext \/ ~Blob[chunk].decodable
    THEN TRUE
    ELSE /\ Len(Blob[chunk].samples) > 0
         /\ SumAbs(Blob[chunk].samples) >= SILENCE_THRESHOLD * Len(Blob[chunk].samples)

\* a detectSpeech that returns false when it cannot decode
FailsClosed(hasContext, chunk) ==
  /\ hasContext
  /\ Blob[chunk].decodable
  /\ Len(Blob[chunk].samples) > 0
  /\ SumAbs(Blob[chunk].samples) > SILENCE_THRESHOLD * Len(Blob[chunk].samples)

\* AudioProcessor.detectSpeech: TRUE without an audio context and when
\* decoding fails, otherwise sum / length > SILENCE_THRESHOLD (0 / 0 is NaN,
\* and NaN > x is false)
detectSpeech(hasContext, chunk) ==
  IF ~hasContext \/ ~Blob[chunk].decodable
    THEN TRUE
    ELSE /\ Len(Blob[chunk].samples) > 0
         /\ SumAbs(Blob[chunk].samples) > SILENCE_THRESHOLD * Len(Blob[chunk].samples)

\* a buffer that refuses the new chunk when it is full
KeepOldest(chunks, chunk, maxChunks) ==
  IF Len(chunks) >= maxChunks THEN chunks ELSE Append(chunks, chunk)

\* AudioChunkBuffer.addChunk
addChunk(chunks, chunk, maxChunks) ==
  IF Len(Append(chunks, chunk)) > maxChunks
    THEN Tail(Append(chunks, chunk))
    ELSE Append(chunks, chunk)

\* a handleAudioChunk without the check of the flag
NeverBusy(session) == FALSE

\* handleAudioChunk: if (session.isProcessing) return
IsBusy(session) == session.isProcessing

\* a handleAudioChunk without the check of the interval
NeverTooSoon(session) == FALSE

\* handleAudioChunk: if (now - session.lastProcessedTime < PROCESSING_INTERVAL) return
TooSoon(session) == now - session.lastProcessedTime < PROCESSING_INTERVAL

\* handleAudioChunk: the session once a chunk has passed the two checks
ForwardingSession(session, chunk) ==
  [session EXCEPT !.isProcessing = TRUE, !.lastProcessedTime = now,
                  !.chunks = addChunk(@, chunk, SessionBufferChunks),
                  !.skippedChunk = ""]

\* handleAudioChunk: the session when the chunk is skipped by a check
SkippingSession(session, chunk) ==
  [session EXCEPT !.skippedChunk = chunk]

FreeTaskSlots == {i \in DOMAIN tasks : tasks[i].pc = "free"}

\* the slot the next handleAudioChunk call takes
NextTaskSlot == CHOOSE i \in FreeTaskSlots : \A j \in FreeTaskSlots : i <= j

\* a call of handleAudioChunk past the checks; inMap: its session was the one
\* registered for the tab when the chunk arrived
NewTask(s, chunk) ==
  [ sid |-> s, tab |-> sessions[s].tab, chunk |-> chunk, pc |-> "gate", req |-> 0,
    url |-> <<"", "">>, body |-> NoBody, sourceLanguage |-> "", result |-> NoOutcome,
    inMap |-> activeSessions[sessions[s].tab] = s ]

\* The recorder of session s emits a blob (every timeslice while recording,
\* once more when it is stopped).  AudioProcessor.handleAudioChunk passes on
\* blobs over 1000 bytes; SubtitleService.handleAudioChunk runs up to its
\* await of detectSpeech.
ChunkAvailable(s, chunk) ==
  /\ sessions[s].recorder = "recording" \/ sessions[s].finalChunk
  /\ LET session == [sessions[s] EXCEPT
                       !.finalChunk = IF sessions[s].recorder = "recording" THEN @ ELSE FALSE]
     IN  IF Blob[chunk].size > MinChunkSize /\ ~IsBusy(session) /\ ~TooSoon(session)
           THEN /\ FreeTaskSlots # {}
                /\ sessions' = [sessions EXCEPT ![s] = ForwardingSession(session, chunk)]
                /\ tasks' = [tasks EXCEPT ![NextTaskSlot] = NewTask(s, chunk)]
           ELSE /\ sessions' = [sessions EXCEPT ![s] =
                       IF Blob[chunk].size > MinChunkSize
                         THEN SkippingSession(session, chunk) ELSE session]
                /\ UNCHANGED tasks
  /\ UNCHANGED <<now, ticks, tabOpen, settings, config, requestQueue, requests,
                 activeSessions, starts, chan, sink,
                 calls, retry, buffer, video>>

\* detectSpeech has answered: without speech handleAudioChunk returns (its
\* finally clears isProcessing), with speech processAudioChunkRealTime reads
\* the settings
SpeechDetected(i) ==
  /\ tasks[i].pc = "gate"
  /\ IF detectSpeech(TRUE, tasks[i].chunk)
       THEN /\ tasks' = [tasks EXCEPT ![i].pc = "settings"]
            /\ UNCHANGED sessions
       ELSE /\ tasks' = [tasks EXCEPT ![i] = FreeTask]
            /\ sessions' = [sessions EXCEPT ![tasks[i].sid] = HandlerEnds(@)]
  /\ UNCHANGED <<now, ticks, tabOpen, settings, config, requestQueue, requests,
                 activeSessions, starts, chan, sink,
                 calls, retry, buffer, video>>

\* settings.sourceLanguage || 'auto'
SourceLanguage == IF settings.sourceLanguage = "" THEN "auto" ELSE settings.sourceLanguage

\* a target language fixed at the default whatever the store holds now
TargetFixed == "en"

\* settings.targetLanguage || 'en'
TargetLanguage == IF settings.targetLanguage = "" THEN "en" ELSE settings.targetLanguage

\* processAudioChunkRealTime: transcribe only, or transcribe and translate
TranscribeOnly(sourceLanguage, targetLanguage) ==
  sourceLanguage = targetLanguage \/ targetLanguage = "auto"

\* the URL and the form of the call processAudioChunkRealTime makes
DispatchUrl ==
  <<config.whisperServiceUrl,
    IF TranscribeOnly(SourceLanguage, TargetLanguage)
      THEN TRANSCRIBE ELSE TRANSLATE_AUDIO_TO_LANGUAGE>>

DispatchBody(chunk) ==
  IF TranscribeOnly(SourceLanguage, TargetLanguage)
    THEN TranscribeForm(chunk, SourceLanguage)
    ELSE TranslateForm(chunk, TargetLanguage, SourceLanguage)

\* chrome.storage.sync.get has answered: processAudioChunkRealTime calls
\* transcribeAudio or translateAudioToLanguage, which call makeRequest
SettingsRead(i) ==
  /\ tasks[i].pc = "settings"
  /\ CanMake("POST", DispatchUrl, DispatchBody(tasks[i].chunk))
  /\ tasks' = [tasks EXCEPT
       ![i].pc = "dispatch",
       ![i].req = RequestFor("POST", DispatchUrl, DispatchBody(tasks[i].chunk)),
       ![i].url = DispatchUrl,
       ![i].body = DispatchBody(tasks[i].chunk),
       ![i].sourceLanguage = SourceLanguage]
  /\ requests' = RequestsAfterMake("POST", DispatchUrl, DispatchBody(tasks[i].chunk), config)
  /\ requestQueue' = QueueAfterMake("POST", DispatchUrl, DispatchBody(tasks[i].chunk))
  /\ UNCHANGED <<now, ticks, tabOpen, settings, config, activeSessions, sessions,
                 starts, chan, sink,
                 calls, retry, buffer, video>>

\* chrome.storage.sync.get rejects: the catch of processAudioChunkRealTime
\* logs, handleAudioChunk clears isProcessing
SettingsFail(i) ==
  /\ tasks[i].pc = "settings"
  /\ tasks' = [tasks EXCEPT ![i] = FreeTask]
  /\ sessions' = [sessions EXCEPT ![tasks[i].sid] = HandlerEnds(@)]
  /\ UNCHANGED <<now, ticks, tabOpen, settings, config, requestQueue, requests,
                 activeSessions, starts, chan, sink,
                 calls, retry, buffer, video>>

\* initializeSettings: the defaults of a fresh installation
DefaultSettings == [sourceLanguage |-> "auto", targetLanguage |-> "en"]

\* What the store can hold under a language key: nothing ("", which
\* `settings.x || d` replaces by d), 'auto' or a language code.
Languages == {"", "auto", "en", "fr"}

\* The language settings that can be stored.
SettingsChoices ==
  [sourceLanguage : Languages, targetLanguage : Languages]

\* message UPDATE_SETTINGS: chrome.storage.sync.set(message.settings)
UpdateSettings(new) ==
  /\ new # settings
  /\ settings' = new
  /\ UNCHANGED <<now, ticks, tabOpen, config, requestQueue, requests,
                 activeSessions, sessions, starts, tasks, chan, sink,
                 calls, retry, buffer, video>>

\* ------------------------------------------------ ApiService.updateConfig
\* The fields of ApiConfig.
ConfigFields == {"whisperServiceUrl", "healthCheckUrl", "maxRetries", "requestTimeout"}

CloudUrl == "https://whisper.example.com"

\* A Partial<ApiConfig>: present holds the properties the object has,
\* defined those of them whose value is not undefined, values their values.
PartialConfigs ==
  { nc \in [ present : SUBSET {"whisperServiceUrl", "maxRetries"},
             defined : SUBSET {"whisperServiceUrl", "maxRetries"},
             values  : {[getApiConfig EXCEPT !.whisperServiceUrl = CloudUrl,
                                             !.maxRetries = 1]} ] :
      nc.defined \subseteq nc.present }

\* a merge that spreads newConfig as it is: a property that is undefined
\* in newConfig is undefined afterwards
MergeUnfiltered(cfg, newConfig) ==
  [f \in ConfigFields |->
     IF f \in newConfig.defined THEN newConfig.values[f]
     ELSE IF f \in newConfig.present THEN NoConfig[f]
     ELSE cfg[f]]

\* {...this.config, ...Object.fromEntries(entries whose value is defined)}
MergeConfig(cfg, newConfig) ==
  [f \in ConfigFields |->
     IF f \in newConfig.present /\ f \in newConfig.defined
       THEN newConfig.values[f]
       ELSE cfg[f]]

\* an updateConfig that starts from the default configuration when none is loaded
UpdateOverDefault(cfg, newConfig) ==
  IF cfg = NoConfig THEN MergeConfig(getApiConfig, newConfig) ELSE MergeConfig(cfg, newConfig)

\* this.config after updateConfig(newConfig)
ConfigAfterUpdate(cfg, newConfig) ==
  IF cfg = NoConfig THEN cfg ELSE MergeConfig(cfg, newConfig)

NotInitialized == "Cannot update config before initial config is loaded."

\* updateConfig(newConfig): throws when this.config is null
UpdateConfig(newConfig) ==
  /\ Len(calls) < MaxCalls
  /\ config' = ConfigAfterUpdate(config, newConfig)
  /\ calls' = Append(calls,
       IF config = NoConfig
         THEN [NewCall("updateConfig") EXCEPT !.pc = "thrown", !.arg = newConfig,
                 !.error = APIError(NotInitialized, -1, APIError("", -1, ""))]
         ELSE [NewCall("updateConfig") EXCEPT !.pc = "returned", !.arg = newConfig])
  /\ UNCHANGED <<now, ticks, tabOpen, settings, requestQueue, requests,
                 activeSessions, sessions, starts, tasks, chan, sink, retry, buffer, video>>

\* ------------------------------------------------ ApiService.retryRequest
\* The outcomes of requestFn: it resolves with a value or rejects with an error.
FnOutcomes ==
  [ok : {TRUE}, v : {"r1", "r2"}] \cup [ok : {FALSE}, v : {"e1", "e2"}]

\* The argument maxRetries: not given, or a number.
RetryArgs ==
  {[given |-> FALSE, value |-> 0]} \cup {[given |-> TRUE, value |-> n] : n \in 0..MaxRetryArg}

\* No call of retryRequest.  Besides the variables of the code: invocations
\* counts the calls of requestFn, outcomes holds how they settled, delays the
\* delays passed to setTimeout, waitFrom the time the last wait began.
NoRetry ==
  [ pc |-> "idle", arg |-> [given |-> FALSE, value |-> 0], actualMaxRetries |-> 0,
    attempt |-> 0, invocations |-> 0, outcomes |-> <<>>, delays |-> <<>>,
    waitFrom |-> 0, lastError |-> "", result |-> "" ]

RECURSIVE Pow2(_)
\* Math.pow(2, n)
Pow2(n) == IF n = 0 THEN 1 ELSE 2 * Pow2(n - 1)

\* a backoff that grows by one second per attempt
LinearBackoff(attempt) == (attempt + 1) * 1000

\* const delay = Math.pow(2, attempt) * 1000
BackoffDelay(attempt) == Pow2(attempt) * 1000

\* a loop that gives up one attempt early
OneAttemptLess(attempt, actualMaxRetries) == attempt + 1 >= actualMaxRetries

\* if (attempt === actualMaxRetries) break
LastAttempt(attempt, actualMaxRetries) == attempt = actualMaxRetries

\* the loop is entered: maxRetries ?? config.maxRetries, attempt 0, requestFn()
RetryLoop(call, cfg) ==
  [call EXCEPT
     !.pc = "attempt",
     !.actualMaxRetries = IF call.arg.given THEN call.arg.value ELSE cfg.maxRetries,
     !.attempt = 0,
     !.invocations = 1]

\* retryRequest(requestFn, maxRetries): awaits getConfig, then the first attempt
RetryRequest(arg) ==
  /\ retry.pc = "idle"
  /\ retry' = IF config = NoConfig
                THEN [retry EXCEPT !.pc = "config", !.arg = arg]
                ELSE RetryLoop([retry EXCEPT !.arg = arg], config)
  /\ UNCHANGED <<now, ticks, tabOpen, settings, config, requestQueue, requests,
                 activeSessions, sessions, starts, tasks, chan, sink, calls, buffer, video>>

\* getConfig of retryRequest: this.config = await getApiConfig()
RetryConfigLoaded ==
  /\ retry.pc = "config"
  /\ config' = getApiConfig
  /\ retry' = RetryLoop(retry, getApiConfig)
  /\ UNCHANGED <<now, ticks, tabOpen, settings, requestQueue, requests,
                 activeSessions, sessions, starts, tasks, chan, sink, calls, buffer, video>>

\* The promise of requestFn settles: its value is returned; after a failure
\* the loop breaks and throws lastError, or waits for the backoff delay.
FnSettles(out) ==
  /\ retry.pc = "attempt"
  /\ retry' =
       IF out.ok
         THEN [retry EXCEPT !.pc = "returned", !.result = out.v,
                            !.outcomes = Append(@, out)]
       ELSE IF LastAttempt(retry.attempt, retry.actualMaxRetries)
         THEN [retry EXCEPT !.pc = "thrown", !.lastError = out.v,
                            !.outcomes = Append(@, out)]
       ELSE [retry EXCEPT !.pc = "wait", !.lastError = out.v,
                          !.outcomes = Append(@, out),
                          !.delays = Append(@, BackoffDelay(retry.attempt)),
                          !.waitFrom = now]
  /\ UNCHANGED <<now, ticks, tabOpen, settings, config, requestQueue, requests,
                 activeSessions, sessions, starts, tasks, chan, sink, calls, buffer, video>>

\* the timer of the backoff fires: attempt++ and requestFn is called again
BackoffElapsed ==
  /\ retry.pc = "wait"
  /\ now' = now + retry.delays[Len(retry.delays)]
  /\ retry' = [retry EXCEPT !.pc = "attempt", !.attempt = @ + 1,
                            !.invocations = @ + 1]
  /\ UNCHANGED <<ticks, tabOpen, settings, config, requestQueue, requests,
                 activeSessions, sessions, starts, tasks, chan, sink, calls, buffer, video>>

\* ----------------------------------------------------- AudioChunkBuffer
\* The content of a blob: its bytes (the samples stand for them) and its size.
BlobContent(chunk) == [size |-> Blob[chunk].size, bytes |-> Blob[chunk].samples]

NoContent == [size |-> 0, bytes |-> <<>>]

\* No result of getCombinedChunk.
NoCombined == [pc |-> "none", blob |-> NoContent, error |-> ""]

\* new AudioChunkBuffer(maxChunks).  Besides the fields of the code: added
\* holds every chunk handed to addChunk, combined how the getCombinedChunk
\* called since the last addChunk settled.
NewBuffer(maxChunks) ==
  [maxChunks |-> maxChunks, chunks |-> <<>>, added |-> <<>>, combined |-> NoCombined]

\* no buffer besides those of the sessions
NoBuffer == NewBuffer(0)

RECURSIVE NewestFirst(_)
\* a combination that puts the newest chunk first
NewestFirst(chunks) ==
  IF chunks = <<>> THEN NoContent
  ELSE LET rest == NewestFirst(Tail(chunks))
       IN  [size |-> rest.size + Blob[Head(chunks)].size,
            bytes |-> rest.bytes \o Blob[Head(chunks)].samples]

RECURSIVE Concat(_)
\* new Blob(this.chunks): the parts one after the other
Concat(chunks) ==
  IF chunks = <<>> THEN NoContent
  ELSE LET rest == Concat(Tail(chunks))
       IN  [size |-> Blob[Head(chunks)].size + rest.size,
            bytes |-> Blob[Head(chunks)].samples \o rest.bytes]

EmptyBuffer == "No audio chunks available"

\* buffer.addChunk(chunk)
BufferAddChunk(chunk) ==
  /\ buffer.maxChunks >= 1
  /\ Len(buffer.added) < MaxAdds
  /\ buffer' = [buffer EXCEPT
       !.chunks = addChunk(buffer.chunks, chunk, buffer.maxChunks),
       !.added = Append(@, chunk),
       !.combined = NoCombined]
  /\ UNCHANGED <<now, ticks, tabOpen, settings, config, requestQueue, requests,
                 activeSessions, sessions, starts, tasks, chan, sink, calls, retry, video>>

\* buffer.getCombinedChunk()
GetCombinedChunk ==
  /\ buffer.maxChunks >= 1
  /\ buffer' = [buffer EXCEPT !.combined =
       IF Len(buffer.chunks) = 0
         THEN [pc |-> "thrown", blob |-> NoContent, error |-> EmptyBuffer]
         ELSE [pc |-> "returned", blob |-> Concat(buffer.chunks), error |-> ""]]
  /\ UNCHANGED <<now, ticks, tabOpen, settings, config, requestQueue, requests,
                 activeSessions, sessions, starts, tasks, chan, sink, calls, retry, video>>

\* ---------------------------------------------------------------- time
\* the deadlines of the timers that are set
Deadlines ==
  {requests[r].deadline : r \in {q \in DOMAIN requests : requests[q].timer = "armed"}}

\* the instants at which a call in progress reaches its timeout
Instants == {requests[r].deadline : r \in {q \in DOMAIN requests : InUse(q)}}

\* Time passes.  A timer that is due fires before time passes on, so the
\* clock stops at every deadline of a timer that is set.
Tick(dt) ==
  /\ ticks < MaxTicks
  /\ dt > 0
  /\ \A d \in Deadlines : now + dt <= d
  /\ now' = now + dt
  /\ ticks' = ticks + 1
  /\ UNCHANGED <<tabOpen, settings, config, requestQueue, requests,
                 activeSessions, sessions, starts, tasks, chan, sink,
                 calls, retry, buffer, video>>

\* ------------------------------------------------------ specifications
\* The service worker after construction: no configuration, no session.
Init ==
  /\ now = 0
  /\ ticks = 0
  /\ tabOpen = [t \in Tabs |-> TRUE]
  /\ settings = DefaultSettings
  /\ config = NoConfig
  /\ requestQueue = <<>>
  /\ requests = [r \in 1..MaxRequests |-> FreeRequest]
  /\ activeSessions = [t \in Tabs |-> 0]
  /\ sessions = <<>>
  /\ starts = <<>>
  /\ tasks = [i \in 1..MaxTasks |-> FreeTask]
  /\ chan = [t \in Tabs |-> <<>>]
  /\ sink = [t \in Tabs |-> <<>>]
  /\ calls = <<>>
  /\ retry = NoRetry
  /\ buffer = NoBuffer
  /\ video = [t \in Tabs |-> Playing]

\* the network and the timers acting on the calls in progress
NextRequest ==
  \/ \E r \in DOMAIN requests, status \in {200, 500} : FetchResponds(r, status)
  \/ \E r \in DOMAIN requests : FetchRejects(r)
  \/ \E r \in DOMAIN requests : BodyRead(r)
  \/ \E r \in DOMAIN requests : BodyRejects(r)

\* Session lifecycle: start and stop requests, navigation and removal of
\* tabs, with the health probes and the messages to the tabs.
NextLifecycle ==
  \/ \E tab \in Tabs : StartCapture(tab)
  \/ \E i \in DOMAIN starts : ConfigLoaded(i)
  \/ \E i \in DOMAIN starts, recOk \in BOOLEAN : CaptureResolves(i, recOk)
  \/ \E i \in DOMAIN starts : CaptureRejects(i)
  \/ \E tab \in Tabs : StopCapture(tab)
  \/ \E tab \in Tabs : TabUpdate(tab)
  \/ \E tab \in Tabs : TabRemoved(tab)
  \/ \E tab \in Tabs, delivered \in BOOLEAN : Deliver(tab, delivered)
  \/ NextRequest

SpecLifecycle == Init /\ [][NextLifecycle]_vars

\* Start requests of one tab with the clock running: the health probes and
\* their timers.
NextTimeout ==
  \/ StartCapture(1)
  \/ \E i \in DOMAIN starts : ConfigLoaded(i)
  \/ \E i \in DOMAIN starts : CaptureRejects(i)
  \/ NextRequest
  \/ \E r \in DOMAIN requests : TimeoutFires(r)
  \/ \E dt \in Steps \cup {d - now : d \in Instants} : Tick(dt)

SpecTimeout == Init /\ [][NextTimeout]_vars

\* The capture lifecycle when the calls that release a session may throw.
NextStopThrows ==
  \/ NextLifecycle
  \/ \E tab \in Tabs, at \in {"cleanup", "tracks"} : StopCaptureThrows(tab, at)

SpecStopThrows == Init /\ [][NextStopThrows]_vars

\* Two tabs are capturing: startAudioCapture has returned success for tab 1
\* and for tab 2 (a state SpecLifecycle reaches), no time has passed since.
InitPipeline ==
  /\ now = 0
  /\ ticks = 0
  /\ tabOpen = [t \in Tabs |-> TRUE]
  /\ settings = DefaultSettings
  /\ config = getApiConfig
  /\ requestQueue = <<>>
  /\ requests = [r \in 1..MaxRequests |-> FreeRequest]
  /\ activeSessions = [t \in Tabs |-> IF t <= 2 THEN t ELSE 0]
  /\ sessions = [t \in 1..2 |-> [NewSession(t) EXCEPT !.recorder = "recording"]]
  /\ starts = [t \in 1..2 |->
       [NewStart(t, "done", 0, "success") EXCEPT !.sid = t]]
  /\ tasks = [i \in 1..MaxTasks |-> FreeTask]
  /\ chan = [t \in Tabs |-> <<>>]
  /\ sink = [t \in Tabs |->
       IF t <= 2 THEN <<Message("CAPTURE_STARTED", <<"", 0>>)>> ELSE <<>>]
  /\ calls = <<>>
  /\ retry = NoRetry
  /\ buffer = NoBuffer
  /\ video = [t \in Tabs |-> Playing]

\* The chunk delivery loop of the capturing sessions, with the clock running.
NextPipeline ==
  \/ \E s \in DOMAIN sessions :
       \E chunk \in TabAudio(sessions[s].tab) : ChunkAvailable(s, chunk)
  \/ \E i \in DOMAIN tasks : SpeechDetected(i)
  \/ \E i \in DOMAIN tasks : SettingsRead(i)
  \/ \E i \in DOMAIN tasks : SettingsFail(i)
  \/ \E tab \in Tabs, delivered \in BOOLEAN : Deliver(tab, delivered)
  \/ NextRequest
  \/ \E r \in DOMAIN requests : TimeoutFires(r)
  \/ \E dt \in Steps \cup {d - now : d \in Instants} : Tick(dt)

SpecPipeline == InitPipeline /\ [][NextPipeline]_vars

\* One tab is capturing: startAudioCapture has returned success for tab 1 at
\* time 0 (a state SpecLifecycle reaches), and the first time slice of the
\* recorder, mediaRecorder.start(PROCESSING_INTERVAL), is over.
InitSession ==
  /\ now = PROCESSING_INTERVAL
  /\ ticks = 0
  /\ tabOpen = [t \in Tabs |-> TRUE]
  /\ settings = DefaultSettings
  /\ config = getApiConfig
  /\ requestQueue = <<>>
  /\ requests = [r \in 1..MaxRequests |-> FreeRequest]
  /\ activeSessions = [t \in Tabs |-> IF t = 1 THEN 1 ELSE 0]
  /\ sessions = <<[NewSession(1) EXCEPT !.recorder = "recording",
                                         !.lastProcessedTime = 0]>>
  /\ starts = <<[NewStart(1, "done", 0, "success") EXCEPT !.sid = 1]>>
  /\ tasks = [i \in 1..MaxTasks |-> FreeTask]
  /\ chan = [t \in Tabs |-> <<>>]
  /\ sink = [t \in Tabs |->
       IF t = 1 THEN <<Message("CAPTURE_STARTED", <<"", 0>>)>> ELSE <<>>]
  /\ calls = <<>>
  /\ retry = NoRetry
  /\ buffer = NoBuffer
  /\ video = [t \in Tabs |-> Playing]

\* The chunk delivery loop of one session at that time, for every kind of
\* blob, while the stored settings change.
NextSession ==
  \/ \E s \in DOMAIN sessions, chunk \in ChunkIds : ChunkAvailable(s, chunk)
  \/ \E i \in DOMAIN tasks : SpeechDetected(i)
  \/ \E i \in DOMAIN tasks : SettingsRead(i)
  \/ \E i \in DOMAIN tasks : SettingsFail(i)
  \/ \E new \in SettingsChoices : UpdateSettings(new)
  \/ \E tab \in Tabs, delivered \in BOOLEAN : Deliver(tab, delivered)
  \/ NextRequest

SpecSession == InitSession /\ [][NextSession]_vars

\* The chunk delivery loop of that session when the backend stalls, before
\* it has answered or after the response headers: no call is completed.
NextStalled ==
  \/ \E s \in DOMAIN sessions, chunk \in ChunkIds : ChunkAvailable(s, chunk)
  \/ \E i \in DOMAIN tasks : SpeechDetected(i)
  \/ \E i \in DOMAIN tasks : SettingsRead(i)
  \/ \E i \in DOMAIN tasks : SettingsFail(i)
  \/ \E r \in DOMAIN requests, status \in {200, 500} : FetchResponds(r, status)
  \/ \E r \in DOMAIN requests : TimeoutFires(r)
  \/ \E dt \in Steps \cup {d - now : d \in Instants} : Tick(dt)

SpecStalled == InitSession /\ [][NextStalled]_vars

\* The same session while the stored languages are changed between its
\* chunks: the blob 'hello' every time, a backend that answers.
NextResettings ==
  \/ \E s \in DOMAIN sessions : ChunkAvailable(s, "hello")
  \/ \E i \in DOMAIN tasks : SpeechDetected(i)
  \/ \E i \in DOMAIN tasks : SettingsRead(i)
  \/ \E new \in SettingsChoices : UpdateSettings(new)
  \/ \E r \in DOMAIN requests : FetchResponds(r, 200)
  \/ \E r \in DOMAIN requests : BodyRead(r)
  \/ \E tab \in Tabs : Deliver(tab, TRUE)
  \/ \E dt \in Steps : Tick(dt)

SpecResettings == InitSession /\ [][NextResettings]_vars

\* The same session with a backend that answers every call, for blobs that
\* pass the gate (speech with and without a detected language, noise without
\* words) while the stored source language changes.
NextDisplay ==
  \/ \E s \in DOMAIN sessions, chunk \in {"hello", "garbled", "noise"} :
       ChunkAvailable(s, chunk)
  \/ \E i \in DOMAIN tasks : SpeechDetected(i)
  \/ \E i \in DOMAIN tasks : SettingsRead(i)
  \/ \E source \in {"", "fr"} :
       UpdateSettings([sourceLanguage |-> source, targetLanguage |-> "en"])
  \/ \E r \in DOMAIN requests : FetchResponds(r, 200)
  \/ \E r \in DOMAIN requests : BodyRead(r)
  \/ \E tab \in Tabs, delivered \in BOOLEAN : Deliver(tab, delivered)
  \/ \E dt \in Steps : Tick(dt)

SpecDisplay == InitSession /\ [][NextDisplay]_vars

\* The same session while its video is paused and played again: the blob
\* 'hello' every time, a backend that answers.
NextPause ==
  \/ \E tab \in Tabs : VideoPause(tab)
  \/ \E tab \in Tabs : VideoPlay(tab)
  \/ \E s \in DOMAIN sessions : ChunkAvailable(s, "hello")
  \/ \E i \in DOMAIN tasks : SpeechDetected(i)
  \/ \E i \in DOMAIN tasks : SettingsRead(i)
  \/ \E r \in DOMAIN requests : FetchResponds(r, 200)
  \/ \E r \in DOMAIN requests : BodyRead(r)
  \/ \E tab \in Tabs : Deliver(tab, TRUE)
  \/ \E dt \in Steps : Tick(dt)

SpecPause == InitSession /\ [][NextPause]_vars

\* The same session stopped while its chunks are handled: the blob 'hello'
\* every time, a backend that answers.
NextStopped ==
  \/ \E tab \in Tabs : StopCapture(tab)
  \/ \E s \in DOMAIN sessions : ChunkAvailable(s, "hello")
  \/ \E i \in DOMAIN tasks : SpeechDetected(i)
  \/ \E i \in DOMAIN tasks : SettingsRead(i)
  \/ \E r \in DOMAIN requests : FetchResponds(r, 200)
  \/ \E r \in DOMAIN requests : BodyRead(r)
  \/ \E tab \in Tabs : Deliver(tab, TRUE)
  \/ \E dt \in Steps : Tick(dt)

SpecStopped == InitSession /\ [][NextStopped]_vars

\* The backend client called directly: its five operations and updateConfig,
\* with the network answering, failing or timing out.
NextClient ==
  \/ \E op \in ClientOps : ClientCall(op)
  \/ \E c \in DOMAIN calls : ClientConfigLoaded(c)
  \/ \E newConfig \in PartialConfigs : UpdateConfig(newConfig)
  \/ NextRequest
  \/ \E r \in DOMAIN requests : TimeoutFires(r)
  \/ \E dt \in Steps \cup {d - now : d \in Instants} : Tick(dt)

SpecClient == Init /\ [][NextClient]_vars

\* updateConfig called before, between and after operations of the client,
\* with a backend that answers.
NextConfig ==
  \/ \E newConfig \in PartialConfigs : UpdateConfig(newConfig)
  \/ \E op \in ClientOps : ClientCall(op)
  \/ \E c \in DOMAIN calls : ClientConfigLoaded(c)
  \/ \E r \in DOMAIN requests : FetchResponds(r, 200)
  \/ \E r \in DOMAIN requests : BodyRead(r)

SpecConfig == Init /\ [][NextConfig]_vars

\* One call of retryRequest, for every way requestFn can settle.
NextRetry ==
  \/ \E arg \in RetryArgs : RetryRequest(arg)
  \/ RetryConfigLoaded
  \/ \E out \in FnOutcomes : FnSettles(out)
  \/ BackoffElapsed

\* retryRequest is called before or after the configuration was loaded.
InitRetry ==
  /\ now = 0
  /\ ticks = 0
  /\ tabOpen = [t \in Tabs |-> TRUE]
  /\ settings = DefaultSettings
  /\ config \in {NoConfig, getApiConfig}
  /\ requestQueue = <<>>
  /\ requests = [r \in 1..MaxRequests |-> FreeRequest]
  /\ activeSessions = [t \in Tabs |-> 0]
  /\ sessions = <<>>
  /\ starts = <<>>
  /\ tasks = [i \in 1..MaxTasks |-> FreeTask]
  /\ chan = [t \in Tabs |-> <<>>]
  /\ sink = [t \in Tabs |-> <<>>]
  /\ calls = <<>>
  /\ retry = NoRetry
  /\ buffer = NoBuffer
  /\ video = [t \in Tabs |-> Playing]

SpecRetry == InitRetry /\ [][NextRetry]_vars

\* An AudioChunkBuffer of some capacity, on its own.
InitBuffer ==
  /\ now = 0
  /\ ticks = 0
  /\ tabOpen = [t \in Tabs |-> TRUE]
  /\ settings = DefaultSettings
  /\ config = NoConfig
  /\ requestQueue = <<>>
  /\ requests = [r \in 1..MaxRequests |-> FreeRequest]
  /\ activeSessions = [t \in Tabs |-> 0]
  /\ sessions = <<>>
  /\ starts = <<>>
  /\ tasks = [i \in 1..MaxTasks |-> FreeTask]
  /\ chan = [t \in Tabs |-> <<>>]
  /\ sink = [t \in Tabs |-> <<>>]
  /\ calls = <<>>
  /\ retry = NoRetry
  /\ buffer \in {NewBuffer(n) : n \in 1..MaxCapacity}
  /\ video = [t \in Tabs |-> Playing]

NextBuffer ==
  \/ \E chunk \in {"hello", "bonjour", "garbled"} : BufferAddChunk(chunk)
  \/ GetCombinedChunk

SpecBuffer == InitBuffer /\ [][NextBuffer]_vars

\* Every step of the program: the specifications above are its parts.
Next ==
  \/ NextLifecycle
  \/ NextPipeline
  \/ \E new \in SettingsChoices : UpdateSettings(new)
  \/ NextClient
  \/ NextRetry
  \/ NextBuffer
  \/ NextStopped
  \/ \E tab \in Tabs : VideoPause(tab)
  \/ \E tab \in Tabs : VideoPlay(tab)

Spec == Init /\ [][Next]_vars

\* ---------------------------------------------------------------- claims
InProgress(i) == tasks[i].pc # "free"

\* C1: of the startAudioCapture calls made for one tab with no stopAudioCapture
\* in between, only the first succeeds: once a call has returned success, every
\* later call for the tab that has returned has returned AlreadyCapturing.
C1_OnlyFirstStartSucceeds ==
  \A i \in DOMAIN starts : \A j \in DOMAIN starts :
    ( /\ i < j
      /\ starts[i].tab = starts[j].tab
      /\ ~starts[i].stopSeen
      /\ starts[i].result = "success"
      /\ starts[j].pc = "done" )
    => starts[j].result = "AlreadyCapturing"

\* a session whose stream is acquired and not released and whose recorder runs
Live(s) == sessions[s].stream = "live" /\ sessions[s].recorder = "recording"

\* C2: at most one live session per tab.
C2_OneLiveSessionPerKey ==
  \A s1 \in DOMAIN sessions : \A s2 \in DOMAIN sessions :
    (Live(s1) /\ Live(s2) /\ sessions[s1].tab = sessions[s2].tab) => s1 = s2

\* C3: calls that share a request key while one is pending share one network
\* call (no two calls in progress have the same key, and every caller awaits
\* the call registered under its key), and when the call settles all of them
\* continue with the same result.
C3_SharedCall ==
  /\ \A r \in DOMAIN requests : \A q \in DOMAIN requests :
       (InUse(r) /\ InUse(q) /\ requests[r].key = requests[q].key) => r = q
  /\ \A i \in DOMAIN tasks :
       tasks[i].pc = "dispatch" =>
         /\ requestKey("POST", tasks[i].url, tasks[i].body) \in DOMAIN requestQueue
         /\ requestQueue[requestKey("POST", tasks[i].url, tasks[i].body)] = tasks[i].req

C3_SameResult ==
  \A r \in DOMAIN requests :
    (InUse(r) /\ requests'[r].phase = "free") =>
      \A i \in DOMAIN tasks : \A j \in DOMAIN tasks :
        (AwaitsRequest(tasks[i], r) /\ AwaitsRequest(tasks[j], r)) =>
          /\ tasks'[i].pc = tasks'[j].pc
          /\ tasks'[i].result = tasks'[j].result

C3_OneCallPerKey == []C3_SharedCall /\ [][C3_SameResult]_vars

\* two callers await one call in progress
C3_Witness ==
  \E i \in DOMAIN tasks : \E j \in DOMAIN tasks :
    i # j /\ tasks[i].pc = "dispatch" /\ AwaitsRequest(tasks[j], tasks[i].req)

\* C4: a caller shares a pending call only with an identical request: the
\* call it awaits has its method, its URL and its whole body.
C4_SharedOnlyIfIdentical ==
  \A i \in DOMAIN tasks :
    tasks[i].pc = "dispatch" =>
      /\ requests[tasks[i].req].method = "POST"
      /\ requests[tasks[i].req].url = tasks[i].url
      /\ requests[tasks[i].req].body = tasks[i].body

\* C5: sessions are independent: the result a session continues with is the
\* answer to its own chunk, and a tab is shown only what was said in its own
\* audio.
C5_SessionsIndependent ==
  /\ \A i \in DOMAIN tasks :
       tasks[i].pc = "send" => tasks[i].result.value.text = Blob[tasks[i].chunk].text
  /\ \A t \in Tabs : \A n \in DOMAIN sink[t] :
       sink[t][n].type = "DISPLAY_SUBTITLE" =>
         \E c \in TabAudio(t) : sink[t][n].text = Blob[c].text

\* C6: at most one call of handleAudioChunk per session is past the checks,
\* and the session's flag is set exactly while there is one.
C6_OneDispatchPerSession ==
  \A s \in DOMAIN sessions :
    /\ Cardinality({i \in DOMAIN tasks : InProgress(i) /\ tasks[i].sid = s}) <= 1
    /\ sessions[s].isProcessing <=> \E i \in DOMAIN tasks : InProgress(i) /\ tasks[i].sid = s

\* a dispatch is in flight and the interval since its chunk has passed: only
\* the flag keeps the next chunk from passing the checks
C6_Witness ==
  \E s \in DOMAIN sessions :
    /\ sessions[s].isProcessing
    /\ ~TooSoon(sessions[s])
    /\ \E i \in DOMAIN tasks : tasks[i].sid = s /\ tasks[i].pc = "dispatch"

\* C7: a chunk on which the busy check or the interval check returns early
\* is appended to the session's buffer: it is the buffer's newest chunk until
\* the next chunk passes the checks.
C7_SkippedChunkIsBuffered ==
  \A s \in DOMAIN sessions :
    sessions[s].skippedChunk # "" =>
      /\ sessions[s].chunks # <<>>
      /\ sessions[s].chunks[Len(sessions[s].chunks)] = sessions[s].skippedChunk

\* C8: a call is in progress for at most the configured timeout.
C8_SettlesWithinTimeout ==
  \A r \in DOMAIN requests :
    InUse(r) => now - requests[r].issuedAt <= config.requestTimeout

\* C9: the table holds no entry of a settled call: every entry is the call in
\* progress with that key, and every caller awaits a call in progress.
C9_EntryRemovedOnSettlement ==
  /\ \A k \in DOMAIN requestQueue :
       InUse(requestQueue[k]) /\ requests[requestQueue[k]].key = k
  /\ \A i \in DOMAIN tasks : tasks[i].pc = "dispatch" => InUse(tasks[i].req)

\* a call has settled and its caller continued; a later caller with the same
\* key awaits a call in progress
C9_Witness ==
  \E i \in DOMAIN tasks : \E j \in DOMAIN tasks :
    /\ tasks[i].pc = "send"
    /\ tasks[j].pc = "dispatch"
    /\ InUse(tasks[j].req)
    /\ requestKey("POST", tasks[i].url, tasks[i].body)
         = requestKey("POST", tasks[j].url, tasks[j].body)

\* C10: the stream of a session is released exactly once: its tracks are not
\* stopped twice, and once stopAudioCapture has run for the tab the stream is
\* released.
C10_StreamReleasedExactlyOnce ==
  \A s \in DOMAIN sessions :
    /\ sessions[s].trackStops <= 1
    /\ sessions[s].keyStopped => sessions[s].stream = "stopped"

\* C11: once stopAudioCapture has run for a tab (STOP_CAPTURE, a tab update
\* with status loading, the tab's removal), no session of a startAudioCapture
\* call made before it is registered or capturing for the tab, also when that
\* call was suspended at the health probe or at the capture when it ran.
C11_NoSessionAfterStop ==
  \A i \in DOMAIN starts :
    (starts[i].stopSeen /\ starts[i].sid # 0) =>
      /\ activeSessions[starts[i].tab] # starts[i].sid
      /\ ~Live(starts[i].sid)

\* the calls of startAudioCapture for tab do not continue in this step
NoStartContinues(tab) ==
  \A i \in DOMAIN starts : starts[i].tab = tab => starts'[i].pc = starts[i].pc

\* C12: stopAudioCapture for a tab without a registered session has no effect:
\* in a step from such a state in which no startAudioCapture for the tab
\* continues, the tab's map entry stays empty, no recorder and no track of a
\* stream of the tab is stopped, and nothing is sent to the tab.
C12_StopWithoutSessionStep ==
  \A tab \in Tabs :
    (activeSessions[tab] = 0 /\ NoStartContinues(tab)) =>
      /\ activeSessions'[tab] = 0
      /\ \A s \in DOMAIN sessions :
           sessions[s].tab = tab =>
             /\ sessions'[s].trackStops = sessions[s].trackStops
             /\ sessions'[s].recorder = sessions[s].recorder
             /\ sessions'[s].stream = sessions[s].stream
      /\ Len(chan'[tab]) <= Len(chan[tab])

C12_StopWithoutSessionNoEffect == [][C12_StopWithoutSessionStep]_vars

\* stopAudioCapture has run for a tab whose only startAudioCapture call has
\* not registered a session
C12_Witness ==
  /\ Len(starts) = 1
  /\ starts[1].stopSeen
  /\ starts[1].sid = 0

\* stopAudioCapture ran for tab in this step: a call of startAudioCapture sees
\* it for the first time, or the tab was removed
StopRan(tab) ==
  \/ \E i \in DOMAIN starts :
       starts[i].tab = tab /\ ~starts[i].stopSeen /\ starts'[i].stopSeen
  \/ tabOpen[tab] /\ ~tabOpen'[tab]

\* C13: stopAudioCapture for a tab with a registered session stops the
\* session's recorder and the tracks of its stream, removes the entry from the
\* map and sends CAPTURE_STOPPED to the tab, all in one step: whenever
\* stopAudioCapture runs, or one of these effects happens to the registered
\* session, all of them happen and the session is no longer in the map.
C13_StopStep ==
  \A tab \in Tabs :
    LET s == activeSessions[tab] IN
    (s # 0 /\ NoStartContinues(tab)) =>
      LET removed == activeSessions'[tab] = 0
          released == /\ sessions'[s].stream = "stopped"
                      /\ sessions'[s].recorder = "inactive"
                      /\ sessions'[s].trackStops = sessions[s].trackStops + 1
          notified == /\ Len(chan'[tab]) = Len(chan[tab]) + 1
                      /\ chan'[tab][Len(chan'[tab])].type = "CAPTURE_STOPPED"
          touched == \/ sessions'[s].stream # sessions[s].stream
                     \/ sessions'[s].recorder # sessions[s].recorder
                     \/ sessions'[s].trackStops # sessions[s].trackStops
      IN  (StopRan(tab) \/ removed \/ touched) => (removed /\ released /\ notified)

C14_StoppedSessionRemoved ==
  \A tab \in Tabs :
    activeSessions[tab] # 0 => ~sessions[activeSessions[tab]].keyStopped

\* C15 (state part): a call that returned BackendUnavailable has ended and
\* has no session.
C15_FailedProbeState ==
  \A i \in DOMAIN starts :
    starts[i].result = "BackendUnavailable" =>
      starts[i].pc = "done" /\ starts[i].sid = 0

\* C15 (step part): when the health probe of a call settles without a
\* response body read from a 2xx answer, the call returns BackendUnavailable;
\* and the step in which a call returns BackendUnavailable acquires no stream,
\* registers no session and sends nothing to a tab.
C15_FailedProbeStep ==
  \A i \in DOMAIN starts :
    (starts[i].pc = "health" /\ starts'[i].pc # "health") =>
      /\ requests[starts[i].req].phase # "body" =>
           starts'[i].pc = "done" /\ starts'[i].result = "BackendUnavailable"
      /\ starts'[i].result = "BackendUnavailable" =>
           /\ sessions' = sessions
           /\ activeSessions' = activeSessions
           /\ chan' = chan
           /\ sink' = sink

\* C15: if the health probe does not succeed, startAudioCapture fails with
\* BackendUnavailable and has no other effect.
C15_ProbeFailureNoEffect == []C15_FailedProbeState /\ [][C15_FailedProbeStep]_vars

\* a call of startAudioCapture has returned BackendUnavailable
C15_Witness ==
  \E i \in DOMAIN starts :
    starts[i].pc = "done" /\ starts[i].result = "BackendUnavailable"

\* the entry of a form under a name ("" when the form has none)
FormValue(body, name) ==
  IF \E n \in DOMAIN body.entries : body.entries[n][1] = name
    THEN body.entries[CHOOSE n \in DOMAIN body.entries : body.entries[n][1] = name][2]
    ELSE ""

\* C16: when processAudioChunkRealTime dispatches a chunk, it posts to the
\* transcribe-only endpoint if the stored source and target languages are
\* equal or the stored target is unset or 'auto', and otherwise to
\* translate-audio-to-language with the stored target.
C16_PolicyStep ==
  \A i \in DOMAIN tasks :
    (tasks[i].pc = "settings" /\ tasks'[i].pc = "dispatch") =>
      IF \/ settings.sourceLanguage = settings.targetLanguage
         \/ settings.targetLanguage \in {"", "auto"}
        THEN tasks'[i].url[2] = TRANSCRIBE
        ELSE /\ tasks'[i].url[2] = TRANSLATE_AUDIO_TO_LANGUAGE
             /\ FormValue(tasks'[i].body, "target_language") = settings.targetLanguage

C16_DispatchPolicy == [][C16_PolicyStep]_vars

\* C17: with the settings source 'auto' and target 'en', the blob 'hello'
\* (mean amplitude 0.5) that arrives at the time its session was created is
\* not skipped but dispatched, it is posted to the transcribe-only endpoint,
\* and its subtitle has the text 'hello' and the language 'en' or the
\* detected one.
C17_FirstChunkTranscribed ==
  /\ \A s \in DOMAIN sessions :
       (now = 0 /\ sessions[s].lastProcessedTime = 0) =>
         sessions[s].skippedChunk # "hello"
  /\ \A i \in DOMAIN tasks :
       (tasks[i].chunk = "hello" /\ tasks[i].pc \in {"dispatch", "send"}) =>
         tasks[i].url[2] = TRANSCRIBE
  /\ \A t \in Tabs : \A n \in DOMAIN chan[t] :
       ( /\ chan[t][n].type = "DISPLAY_SUBTITLE"
         /\ tasks[chan[t][n].sender[2]].chunk = "hello" ) =>
         /\ chan[t][n].text = Blob["hello"].text
         /\ chan[t][n].language \in {"en", Blob["hello"].lang}

\* a blob that decodes and whose mean absolute amplitude is at most the
\* silence threshold
Quiet(chunk) ==
  /\ Blob[chunk].decodable
  /\ SumAbs(Blob[chunk].samples) <= SILENCE_THRESHOLD * Len(Blob[chunk].samples)

\* the handler of task i is past the speech gate
PastGate(i) == tasks[i].pc \in {"settings", "dispatch", "send"}

\* C18: a blob that decodes and whose mean amplitude does not exceed 0.01 is
\* rejected by detectSpeech and never dispatched: no handler past the gate
\* and no call in progress carries one; for a blob that decodes, detectSpeech
\* is true exactly when the mean exceeds the threshold.
C18_SilenceNeverDispatched ==
  /\ \A i \in DOMAIN tasks : PastGate(i) => ~Quiet(tasks[i].chunk)
  /\ \A r \in DOMAIN requests :
       (InUse(r) /\ requests[r].body.kind = "form") =>
         ~Quiet(FormValue(requests[r].body, "audio_file"))
  /\ \A c \in ChunkIds :
       Blob[c].decodable => (detectSpeech(TRUE, c) <=> ~Quiet(c))

\* a quiet blob passed the busy and interval checks (it is the newest in the
\* buffer) and its handler has ended
C18_Witness ==
  \E s \in DOMAIN sessions :
    /\ sessions[s].chunks # <<>>
    /\ Quiet(sessions[s].chunks[Len(sessions[s].chunks)])
    /\ ~sessions[s].isProcessing

\* C19 (function part): detectSpeech is true for a blob that does not decode
\* and for every blob when there is no audio context.
C19_FailOpenValue ==
  \A c \in ChunkIds :
    /\ ~Blob[c].decodable => detectSpeech(TRUE, c)
    /\ detectSpeech(FALSE, c)

\* C19 (step part): a handler waiting at the gate with a blob that does not
\* decode goes on to dispatch it, it is not dropped.
C19_FailOpenStep ==
  \A i \in DOMAIN tasks :
    ( /\ tasks[i].pc = "gate"
      /\ ~Blob[tasks[i].chunk].decodable
      /\ tasks'[i] # tasks[i] ) => tasks'[i].pc = "settings"

\* C19: when decoding fails the gate answers true and the chunk is
\* dispatched.
C19_GateFailsOpen == []C19_FailOpenValue /\ [][C19_FailOpenStep]_vars

\* the blob that does not decode is being dispatched
C19_Witness ==
  \E i \in DOMAIN tasks :
    /\ tasks[i].pc = "dispatch"
    /\ ~Blob[tasks[i].chunk].decodable
    /\ FormValue(requests[tasks[i].req].body, "audio_file") = tasks[i].chunk

\* C20: a dispatch that the backend has not completed within the configured
\* timeout is ended by the timeout (RequestTimeout is raised and the
\* session's flag is cleared, so that the next chunk is processed): no handler
\* of a session awaits a call for longer than the timeout.
C20_TimedOutDispatchEnds ==
  \A i \in DOMAIN tasks :
    tasks[i].pc = "dispatch" =>
      /\ sessions[tasks[i].sid].isProcessing
      /\ now - requests[tasks[i].req].issuedAt <= config.requestTimeout

\* the attempts retryRequest was asked to allow beyond the first
MaxAttempts == IF retry.arg.given THEN retry.arg.value ELSE config.maxRetries

\* the calls of requestFn that failed, among those that have settled
Failures == SelectSeq(retry.outcomes, LAMBDA o : ~o.ok)

\* C21: retryRequest invokes requestFn until its first success and at most
\* maxRetries + 1 times: every invocation before the last one failed, the
\* call returns the value of the first success, and it throws the error of
\* the last attempt exactly when all maxRetries + 1 attempts have failed.
C21_RetryState ==
  retry.pc \in {"attempt", "wait", "returned", "thrown"} =>
    /\ retry.invocations <= MaxAttempts + 1
    /\ retry.invocations = Len(retry.outcomes) + (IF retry.pc = "attempt" THEN 1 ELSE 0)
    /\ \A k \in 1..(Len(retry.outcomes) - 1) : ~retry.outcomes[k].ok
    /\ retry.pc = "wait" =>
         /\ ~retry.outcomes[Len(retry.outcomes)].ok
         /\ Len(retry.outcomes) <= MaxAttempts
    /\ retry.pc = "returned" =>
         /\ retry.outcomes[Len(retry.outcomes)].ok
         /\ retry.result = retry.outcomes[Len(retry.outcomes)].v
    /\ retry.pc = "thrown" =>
         /\ Len(retry.outcomes) = MaxAttempts + 1
         /\ ~retry.outcomes[Len(retry.outcomes)].ok
         /\ retry.lastError = retry.outcomes[Len(retry.outcomes)].v

\* once retryRequest has returned or thrown it does not invoke requestFn again
C21_RetryStep ==
  retry.pc \in {"returned", "thrown"} => retry' = retry

C21_RetryUntilFirstSuccess == []C21_RetryState /\ [][C21_RetryStep]_vars

\* a call that returned the value of its third attempt after two failures
C21_Witness ==
  /\ retry.pc = "returned"
  /\ retry.invocations = 3
  /\ retry.outcomes[1].v # retry.outcomes[2].v

\* C22: the wait after the failed attempt i (from 0) is 1000 ms * 2^i, it
\* ends after exactly that time, and the error is thrown after
\* maxRetries + 1 attempts without a wait after the last one.
C22_BackoffState ==
  /\ retry.delays = [k \in 1..Len(retry.delays) |-> 1000 * Pow2(k - 1)]
  /\ retry.pc = "wait" => Len(retry.delays) = Len(Failures)
  /\ retry.pc = "attempt" => Len(retry.delays) = Len(Failures)
  /\ retry.pc = "thrown" =>
       /\ Len(retry.outcomes) = MaxAttempts + 1
       /\ Len(retry.delays) = MaxAttempts
  /\ retry.pc = "returned" => Len(retry.delays) = Len(Failures)

\* the next attempt begins 1000 ms * 2^i after the failure of attempt i
C22_BackoffStep ==
  retry'.invocations = retry.invocations + 1 /\ retry.invocations >= 1 =>
    /\ retry.pc = "wait"
    /\ now' - retry.waitFrom = 1000 * Pow2(retry.attempt)
    /\ retry'.attempt = retry.attempt + 1

C22_BackoffDoubles == []C22_BackoffState /\ [][C22_BackoffStep]_vars

\* all four attempts of a call with the configured maxRetries failed
C22_Witness ==
  /\ retry.pc = "thrown"
  /\ ~retry.arg.given
  /\ Len(retry.delays) = DefaultMaxRetries
  /\ now = 7000

\* C23: the error an operation of the backend client throws to its caller has
\* the HTTP status as its status when the backend answered non-2xx and status
\* 0 when the failure was a transport failure, and it carries details.
C23_ErrorCarriesStatus ==
  \A c \in DOMAIN calls :
    calls[c].op \in ClientOps /\ calls[c].pc = "thrown" =>
      LET cause == calls[c].error.details
      IN  /\ cause.message = "Network error" => calls[c].error.status = 0
          /\ cause.message = "API request failed" => calls[c].error.status = cause.status
          /\ calls[c].error.details # NoError.details

\* C24: a dispatch of a session that fails with a timeout or a transport
\* error before the backend answered is retried: the same request is in
\* progress again once the failed call has settled.
C24_FailedCallStep ==
  \A r \in DOMAIN requests :
    /\ requests[r].phase = "fetch"
    /\ requests'[r].phase = "free"
    /\ \E i \in DOMAIN tasks : AwaitsRequest(tasks[i], r)
    => requests[r].key \in DOMAIN requestQueue'

C24_TimeoutAndTransportRetried == [][C24_FailedCallStep]_vars

\* the handling of the chunk of task i fails in this step: the settings read
\* rejects, the backend call fails before or after the response headers
\* (error response, transport error, timeout), or sendMessage rejects
FailsIn(i) ==
  \/ tasks[i].pc = "settings" /\ tasks'[i].pc = "free"
  \/ /\ tasks[i].pc = "dispatch"
     /\ requests[tasks[i].req].phase \in {"fetch", "errbody"}
     /\ requests'[tasks[i].req].phase = "free"
  \/ tasks[i].pc = "send" /\ tasks'[i].pc = "free" /\ sink' = sink

\* C25 (step): a failure while a chunk is processed ends the handler without
\* any message to a tab; the session stays registered and recording as it
\* was, with the processing flag cleared.
C25_FailureStep ==
  \A i \in DOMAIN tasks :
    FailsIn(i) =>
      /\ tasks'[i] = FreeTask
      /\ \A t \in Tabs : Len(chan'[t]) <= Len(chan[t])
      /\ sink' = sink
      /\ activeSessions' = activeSessions
      /\ sessions'[tasks[i].sid] = [sessions[tasks[i].sid] EXCEPT !.isProcessing = FALSE]

\* C25 (state): the only messages sent to a tab are the capture notices and
\* subtitles with text
C25_NoErrorEvent ==
  \A t \in Tabs :
    /\ \A n \in DOMAIN chan[t] :
         /\ chan[t][n].type \in {"CAPTURE_STARTED", "CAPTURE_STOPPED", "DISPLAY_SUBTITLE"}
         /\ chan[t][n].type = "DISPLAY_SUBTITLE" => Trim(chan[t][n].text) # <<>>
    /\ \A n \in DOMAIN sink[t] :
         /\ sink[t][n].type \in {"CAPTURE_STARTED", "CAPTURE_STOPPED", "DISPLAY_SUBTITLE"}
         /\ sink[t][n].type = "DISPLAY_SUBTITLE" => Trim(sink[t][n].text) # <<>>

C25_ChunkFailuresSwallowed == []C25_NoErrorEvent /\ [][C25_FailureStep]_vars

\* the blob 'hello' passed the gate of a session and its handling has ended
\* without a subtitle reaching the tab; the session is registered and idle
C25_Witness ==
  \E s \in DOMAIN sessions :
    /\ sessions[s].chunks = <<"hello">>
    /\ ~sessions[s].isProcessing
    /\ activeSessions[sessions[s].tab] = s
    /\ sessions[s].recorder = "recording"
    /\ \A i \in DOMAIN tasks : tasks[i].sid # s
    /\ chan[sessions[s].tab] = <<>>
    /\ \A n \in DOMAIN sink[sessions[s].tab] :
         sink[sessions[s].tab][n].type # "DISPLAY_SUBTITLE"

\* C26: the endpoint and the languages of a dispatch are those of the
\* settings store at the time processAudioChunkRealTime reads it for that
\* chunk, whatever the settings were when the session started or when
\* earlier chunks were dispatched.
C26_CurrentSettingsStep ==
  \A i \in DOMAIN tasks :
    (tasks[i].pc = "settings" /\ tasks'[i].pc = "dispatch") =>
      LET source == IF settings.sourceLanguage = "" THEN "auto" ELSE settings.sourceLanguage
          target == IF settings.targetLanguage = "" THEN "en" ELSE settings.targetLanguage
      IN  /\ tasks'[i].url[2] \in {TRANSCRIBE, TRANSLATE_AUDIO_TO_LANGUAGE}
          /\ tasks'[i].url[2] = TRANSCRIBE <=> (source = target \/ target = "auto")
          /\ FormValue(tasks'[i].body, "source_language") =
               (IF source = "auto" THEN "" ELSE source)
          /\ tasks'[i].url[2] = TRANSLATE_AUDIO_TO_LANGUAGE =>
               FormValue(tasks'[i].body, "target_language") = target
          /\ tasks'[i].sourceLanguage = source

C26_SettingsReadPerChunk == [][C26_CurrentSettingsStep]_vars

\* the session that started with the target 'en' has a chunk in flight to
\* the target 'fr', set since, and an earlier chunk of it was displayed
C26_Witness ==
  \E i \in DOMAIN tasks :
    /\ tasks[i].pc = "dispatch"
    /\ tasks[i].url[2] = TRANSLATE_AUDIO_TO_LANGUAGE
    /\ FormValue(tasks[i].body, "target_language") = "fr"
    /\ activeSessions[tasks[i].tab] = tasks[i].sid
    /\ Len(sessions[tasks[i].sid].chunks) >= 2

\* the messages of a channel without their sender
Events(ms) == [n \in DOMAIN ms |-> [type |-> ms[n].type, text |-> ms[n].text,
                                     language |-> ms[n].language]]

\* C27: when the dispatch of a chunk succeeds, a DISPLAY_SUBTITLE message is
\* sent to the tab of the session if and only if the recognized text is not
\* empty after trimming; it carries that text and the detected language when
\* the backend returned one, otherwise the source language.
C27_DisplayStep ==
  \A i \in DOMAIN tasks :
    /\ tasks[i].pc = "dispatch"
    /\ requests[tasks[i].req].phase = "body"
    /\ requests'[tasks[i].req].phase = "free"
    => LET answer == BackendAnswer(requests[tasks[i].req])
           tab == sessions[tasks[i].sid].tab
           blank == \A n \in DOMAIN answer.text : answer.text[n] = " "
       IN  /\ \A t \in Tabs \ {tab} : chan'[t] = chan[t]
           /\ IF blank
                THEN chan'[tab] = chan[tab]
                ELSE Events(chan'[tab]) = Append(Events(chan[tab]),
                       [ type |-> "DISPLAY_SUBTITLE", text |-> answer.text,
                         language |-> IF answer.detected_language # ""
                                        THEN answer.detected_language
                                        ELSE tasks[i].sourceLanguage ])

C27_SubtitleIffText == [][C27_DisplayStep]_vars

\* the tab received 'hm' labelled 'fr', the source language stored at the
\* time (the backend detected none), and nothing for the noise that followed
C27_Witness ==
  /\ sessions[1].chunks = <<"garbled", "noise">>
  /\ ~sessions[1].isProcessing
  /\ chan[1] = <<>>
  /\ Events(sink[1]) =
       << [type |-> "CAPTURE_STARTED", text |-> <<>>, language |-> ""],
          [type |-> "DISPLAY_SUBTITLE", text |-> <<"h", "m">>, language |-> "fr"] >>

\* the last n elements of a sequence (all of it when it is shorter)
LastN(xs, n) == SubSeq(xs, Len(xs) - Min(n, Len(xs)) + 1, Len(xs))

\* C28: after any number k of addChunk calls on a buffer of capacity N >= 1
\* the buffer holds at most N chunks, and they are the last min(k, N) chunks
\* added, in the order in which they were added.
C28_BufferKeepsNewest ==
  buffer.maxChunks >= 1 =>
    /\ Len(buffer.chunks) <= buffer.maxChunks
    /\ Len(buffer.chunks) = Min(Len(buffer.added), buffer.maxChunks)
    /\ buffer.chunks = LastN(buffer.added, buffer.maxChunks)

\* a buffer of capacity 2 after four chunks, the first two evicted
C28_Witness ==
  /\ buffer.maxChunks = 2
  /\ buffer.added = <<"hello", "bonjour", "garbled", "hello">>
  /\ buffer.chunks = <<"garbled", "hello">>

RECURSIVE JoinBytes(_, _)
\* the bytes of the first n chunks of a sequence, one chunk after the other
JoinBytes(chunks, n) ==
  IF n = 0 THEN <<>> ELSE JoinBytes(chunks, n - 1) \o Blob[chunks[n]].samples

RECURSIVE JoinSize(_, _)
\* the size of the first n chunks of a sequence together
JoinSize(chunks, n) ==
  IF n = 0 THEN 0 ELSE JoinSize(chunks, n - 1) + Blob[chunks[n]].size

\* C29 (state): a getCombinedChunk that threw found no chunk and threw 'No
\* audio chunks available'; one that returned gave the retained chunks
\* joined in insertion order.
C29_CombinedState ==
  /\ buffer.combined.pc = "thrown" =>
       buffer.chunks = <<>> /\ buffer.combined.error = EmptyBuffer
  /\ buffer.combined.pc = "returned" =>
       /\ buffer.chunks # <<>>
       /\ buffer.combined.blob.bytes = JoinBytes(buffer.chunks, Len(buffer.chunks))
       /\ buffer.combined.blob.size = JoinSize(buffer.chunks, Len(buffer.chunks))

\* C29 (step): getCombinedChunk throws exactly when the buffer is empty and
\* leaves the content of the buffer as it is.
C29_CombinedStep ==
  (buffer'.combined # buffer.combined /\ buffer'.combined.pc # "none") =>
    /\ buffer'.chunks = buffer.chunks
    /\ buffer'.added = buffer.added
    /\ buffer'.combined.pc = IF buffer.chunks = <<>> THEN "thrown" ELSE "returned"

C29_CombinedChunk == []C29_CombinedState /\ [][C29_CombinedStep]_vars

\* two different chunks were combined, the older one first
C29_Witness ==
  /\ buffer.chunks = <<"hello", "bonjour">>
  /\ buffer.combined.pc = "returned"
  /\ buffer.combined.blob.bytes = <<500, -500, 400, -600>>

\* updateConfig is called in this step
UpdateConfigCalled ==
  /\ Len(calls') = Len(calls) + 1
  /\ calls'[Len(calls')].op = "updateConfig"

\* C30 (step): updateConfig called while no configuration is loaded throws
\* 'Cannot update config before initial config is loaded.' and changes
\* nothing besides.
C30_UpdateStep ==
  (UpdateConfigCalled /\ config = NoConfig) =>
    /\ calls'[Len(calls')].pc = "thrown"
    /\ calls'[Len(calls')].error.message = NotInitialized
    /\ config' = NoConfig
    /\ UNCHANGED <<requestQueue, requests, settings>>

\* C30 (next operation): an operation called while no configuration is
\* loaded waits for the load (getConfig) before it makes its request.
C30_LoadStep ==
  (Len(calls') = Len(calls) + 1 /\ calls'[Len(calls')].op \in ClientOps /\ config = NoConfig) =>
    /\ calls'[Len(calls')].pc = "config"
    /\ UNCHANGED <<requestQueue, requests>>

\* C30 (state): a call of updateConfig has thrown only with that error, and
\* while no configuration is loaded no updateConfig has returned.
C30_UpdateState ==
  \A c \in DOMAIN calls :
    calls[c].op = "updateConfig" =>
      /\ calls[c].pc = "thrown" => calls[c].error.message = NotInitialized
      /\ calls[c].pc = "returned" => config # NoConfig

C30_UpdateBeforeLoadFails ==
  []C30_UpdateState /\ [][C30_UpdateStep]_vars /\ [][C30_LoadStep]_vars

\* updateConfig threw, and the operation called after it loaded the
\* configuration from the store and has its request in progress
C30_Witness ==
  /\ Len(calls) = 2
  /\ calls[1].op = "updateConfig"
  /\ calls[1].pc = "thrown"
  /\ calls[2].op = "healthCheck"
  /\ calls[2].pc = "await"
  /\ config = getApiConfig

\* C31: updateConfig(newConfig) called with a configuration loaded returns,
\* gives every property that newConfig defines the value newConfig has for
\* it, and leaves every other field, absent from newConfig or undefined in
\* it, as it was.
C31_MergeStep ==
  (UpdateConfigCalled /\ config # NoConfig) =>
    LET newConfig == calls'[Len(calls')].arg
    IN  /\ calls'[Len(calls')].pc = "returned"
        /\ \A f \in ConfigFields :
             config'[f] = IF f \in newConfig.defined
                            THEN newConfig.values[f]
                            ELSE config[f]

C31_UpdateMergesDefined == [][C31_MergeStep]_vars

\* updateConfig({whisperServiceUrl: undefined, maxRetries: 1}) has returned:
\* maxRetries is 1 and the URL is the one that was loaded
C31_Witness ==
  \E c \in DOMAIN calls :
    /\ calls[c].op = "updateConfig"
    /\ calls[c].pc = "returned"
    /\ calls[c].arg.present = {"whisperServiceUrl", "maxRetries"}
    /\ calls[c].arg.defined = {"maxRetries"}
    /\ config.maxRetries = 1
    /\ config.whisperServiceUrl = BaseUrl

\* C39: whenever a configuration is loaded, healthCheckUrl is
\* whisperServiceUrl followed by '/health'.
C39_HealthUrlFollowsServiceUrl ==
  config # NoConfig => config.healthCheckUrl = <<config.whisperServiceUrl, "/health">>

\* C32: pausing the video changes no session state: in the step in which a
\* video becomes paused the session map, the sessions with their streams and
\* recorders, the chunks in work, the requests and the messages are unchanged;
\* and a key is always either Idle (not in the map) or Capturing (in the map
\* with a live stream and a running recorder), paused or not.
C32_PauseStep ==
  \A tab \in Tabs :
    (~video[tab].paused /\ video'[tab].paused) =>
      UNCHANGED <<activeSessions, sessions, starts, tasks, requests, requestQueue,
                  chan, sink>>

C32_IdleOrCapturing ==
  \A tab \in Tabs :
    \/ activeSessions[tab] = 0
    \/ activeSessions[tab] \in DOMAIN sessions /\ Live(activeSessions[tab])

C33_FinishStep ==
  \A i \in DOMAIN tasks :
    (InProgress(i) /\ tasks'[i].pc = "free") =>
      ~sessions'[tasks[i].sid].isProcessing

\* C33 (state): the flag of a session is true only while a chunk of it that
\* passed the checks is at the speech gate or in its dispatch.
C33_FlagOnlyInProgress ==
  \A s \in DOMAIN sessions :
    sessions[s].isProcessing =>
      \E i \in DOMAIN tasks :
        tasks[i].sid = s /\ tasks[i].pc \in {"gate", "settings", "dispatch", "send"}

C33_FlagClearedOnFinish == []C33_FlagOnlyInProgress /\ [][C33_FinishStep]_vars

\* two chunks of a session have passed the checks and the handling of both
\* has ended: the flag is false
C33_Witness ==
  \E s \in DOMAIN sessions :
    /\ Len(sessions[s].chunks) >= 2
    /\ \A i \in DOMAIN tasks : tasks[i].sid # s
    /\ ~sessions[s].isProcessing
    /\ sessions[s].skippedChunk = ""

\* C34 (step): a chunk passes the checks of its session only when at least
\* PROCESSING_INTERVAL has passed since the last chunk that passed them (or
\* since the session was created), its arrival time becomes the session's
\* lastProcessedTime, and lastProcessedTime never decreases.
C34_PassStep ==
  \A s \in DOMAIN sessions :
    /\ sessions'[s].lastProcessedTime >= sessions[s].lastProcessedTime
    /\ \A i \in DOMAIN tasks :
         (tasks[i].pc = "free" /\ tasks'[i].pc = "gate" /\ tasks'[i].sid = s) =>
           /\ now - sessions[s].lastProcessedTime >= PROCESSING_INTERVAL
           /\ sessions'[s].lastProcessedTime = now

\* C34 (state): lastProcessedTime is never in the future.
C34_NotInFuture == \A s \in DOMAIN sessions : sessions[s].lastProcessedTime <= now

C34_ChunksSpacedByInterval == []C34_NotInFuture /\ [][C34_PassStep]_vars

\* two chunks of a session have passed the checks, the second at least two
\* intervals after the session was created
C34_Witness ==
  \E s \in DOMAIN sessions :
    /\ Len(sessions[s].chunks) >= 2
    /\ sessions[s].lastProcessedTime >= 2 * PROCESSING_INTERVAL

\* C35: in the step in which a startAudioCapture call returns, it returns
\* success exactly if the session it created is registered for its tab with
\* a live stream and a running recorder; a call that returns a failure
\* leaves no session of its own in the map.
C35_ReturnStep ==
  \A i \in DOMAIN starts :
    (starts[i].pc # "done" /\ i \in DOMAIN starts' /\ starts'[i].pc = "done") =>
      LET registered ==
            /\ starts'[i].sid # 0
            /\ activeSessions'[starts'[i].tab] = starts'[i].sid
      IN  IF starts'[i].result = "success"
            THEN /\ registered
                 /\ sessions'[starts'[i].sid].stream = "live"
                 /\ sessions'[starts'[i].sid].recorder = "recording"
            ELSE ~registered

C35_SuccessIffRegistered == [][C35_ReturnStep]_vars

\* the messages sent to a tab in the order of their sendMessage calls:
\* those that have arrived, then those on their way
Sent(t) == sink[t] \o chan[t]

\* C36: a DISPLAY_SUBTITLE is never sent to a tab after a CAPTURE_STOPPED
\* without a CAPTURE_STARTED sent in between.
C36_NoSubtitleAfterStopped ==
  \A t \in Tabs : \A m \in DOMAIN Sent(t), n \in DOMAIN Sent(t) :
    (m < n /\ Sent(t)[m].type = "CAPTURE_STOPPED"
           /\ Sent(t)[n].type = "DISPLAY_SUBTITLE") =>
      \E k \in (m + 1)..(n - 1) : Sent(t)[k].type = "CAPTURE_STARTED"

\* C37: a chunk that arrived when its session was not (or no longer) the one
\* registered for its tab is never sent to the backend.
C37_LateChunkNotDispatched ==
  \A i \in DOMAIN tasks : tasks[i].pc = "dispatch" => tasks[i].inMap

\* the capture notices among the messages sent to a tab, in sending order
Notices(t) ==
  SelectSeq(Sent(t), LAMBDA m : m.type \in {"CAPTURE_STARTED", "CAPTURE_STOPPED"})

\* C38: the capture notices sent to a tab alternate, beginning with
\* CAPTURE_STARTED: the odd ones are CAPTURE_STARTED, the even ones
\* CAPTURE_STOPPED.
C38_NoticesAlternate ==
  \A t \in Tabs : \A n \in DOMAIN Notices(t) :
    Notices(t)[n].type = IF n % 2 = 1 THEN "CAPTURE_STARTED" ELSE "CAPTURE_STOPPED"

====
